---- MODULE Spec2Model ----
(***************************************************************************)
(* Model of the Sony camera server: the MJPEG fan-out streamer, the HTTP   *)
(* liveview handler that drives it, and the per-endpoint RPC dispatch.     *)
(*                                                                         *)
(* Spec      one action per handler run between two blocking points        *)
(*           (the streamer methods execute without interleaving).          *)
(* SpecLive  Spec with the handler threads scheduled fairly.               *)
(* SpecConc  the streamer methods interleaved statement by statement.      *)
(* SpecRpc   invocations of endpoint methods, directly and through POST.   *)
(* SpecDev   changeDevice, statement by statement, beside the liveview     *)
(*           task of the active device.                                    *)
(* SpecStream  the liveview task: connect, parse frames, back off.         *)
(* SpecQuery   one SSDP query over the sockets of the discoverer.          *)
(* SpecBuild   the construction of a device proxy: _build_endpoints.        *)
(* SpecCache   the device cache: its load at startup, scans and lookups.    *)
(* SpecFile    GET of a file of the active device: _forward_device_file.    *)
(* SpecSwap    changeDevice in several handler threads at once.             *)
(* SpecReject  SpecStream on streams with frames the parser rejects.         *)
(* SpecIds     next_id of one endpoint called by several handler threads.   *)
(* SpecArgs    _parse_arg_spec on the parameter spec of one method.         *)
(* SpecAwait   await_state polling the camera status.                       *)
(* SpecExit    the liveview task with exit() between its statements, the    *)
(*             task scheduled fairly.                                       *)
(***************************************************************************)
EXTENDS Integers, Sequences, FiniteSets, TLC

\* ---------------------------------------------------------------- bounds
max_threads == 2          \* MJPEGStreamer(max_threads=...), number of slots
NumThreads == 3           \* handler threads (HTTP clients) in the model
MaxFrames == 2            \* frames the liveview producer delivers
NumConcThreads == 2       \* handler threads that run in SpecConc
MaxCalls == 3             \* invocations of endpoint methods in SpecRpc

Threads == 1..NumThreads
ConcThreads == {c \in Threads : c <= NumConcThreads}

\* ------------------------------------------------------------- constants
RETRY_AFTER == 120
OK == 200
TOO_MANY_REQUESTS == 429
SERVICE_UNAVAILABLE == 503
NOT_IMPLEMENTED == 501
NOT_FOUND == 404
ID_MAX == 2147483647      \* SonyEndPoint.ID_MAX = 0x7FFF_FFFF

VARIABLES
    enabled,        \* MJPEGStreamer.enabled: slot index -> bool
    queues,         \* MJPEGStreamer.queues: slot index -> FIFO of frames
    thread_map,     \* MJPEGStreamer.thread_map: thread -> slot index, -1 = no key
    act_threads,    \* MJPEGStreamer.act_threads
    pc,             \* position of each handler thread
    gone,           \* the client of this handler has closed its connection
    hdrbuf,         \* BaseHTTPRequestHandler._headers_buffer of the handler
    wire,           \* what the handler has written to its client socket
    active_device,  \* SonyCameraServer.active_device
    status,         \* SonyCameraServer.status, reduced to result[3].liveviewStatus
    camera,         \* what the device answers to camera.getEvent right now
    frameCnt,       \* number of add_frame calls begun so far; frame ids are 1..frameCnt
    stamp,          \* history: add_frame calls that had returned when the thread's latest
                    \* activate was called
    recv,           \* history: last frame the thread dequeued since that call, 0 = none
    intact,         \* history: the thread's slot was not deactivated since that activate
    lidx,           \* SpecConc: local idx of the activate a thread is executing
    ctx,            \* SpecConc: the call site of the streamer method a thread is in
    ppc,            \* SpecConc: position of the liveview thread inside add_frame
    pslot,          \* SpecConc: position of add_frame in zip(enabled, queues)
    ep_id,          \* SonyEndPoint.id of each endpoint of the active device
    sent,           \* the requests posted to the device, oldest first
    call,           \* the latest invocation: endpoint, method name, route
    reply,          \* what the latest invocation returned
    liveview,       \* SonyCameraServer.liveview: the device whose stream the task reads
    lv_running,     \* the thread of self.liveview is alive
    cpc,            \* position of the handler that runs _change_device
    cnew,           \* _change_device: local new_dev
    chg,            \* history: the latest changeDevice request
    steps,          \* history: the steps of the latest device switch, in order
    feeder,         \* history: the device whose task made the latest add_frame call
    lv_stream,      \* the frames the camera serves on a liveview connection
    lpc,            \* position of the LiveviewStreamThread
    lv_pos,         \* bytes the thread has read from the current session
    _cnt,           \* LiveviewStreamThread._cnt
    done,           \* LiveviewStreamThread.done
    conns,          \* urlopen calls of the thread so far
    delivered,      \* history: the JPEGs given to jpeg_cb in the current session
    slept,          \* history: the argument of the latest time.sleep of _backoff
    fails,          \* history: transient failures since the last parsed frame
    lastSize,       \* history: the jpeg_data_size payload_header computed last
    lv_err,         \* the exception that ended the thread, "none" while it runs
    socks,          \* what each socket of the discoverer meets in this query
    qi,             \* SSDPDiscoverer.query: index of the socket in turn
    services,       \* SSDPDiscoverer.query: local dict services, in insertion order
    qstate,         \* query has not run / runs / returned / raised
    received,       \* history: the replies recv returned in this query
    webapi,         \* SonyImagingDevice.webapi.Services of the proxy under construction
    endpoints,      \* SonyImagingDevice.endpoints: the keys of the mapping
    eps,            \* _build_endpoints: the rest of eps["results"] the loop has to visit
    url_vote,       \* _build_endpoints: local url_vote
    bpc,            \* position of the constructor of the proxy
    store,          \* the cache file on disk when the server starts
    cache_state,    \* DeviceCache.__init__ has not run / returned / raised
    cache,          \* DeviceCache.cache: items in insertion order
    objs,           \* SonyImagingDevice objects constructed so far
    fetches,        \* history: fetches of the description XML, per key
    made,           \* history: proxies constructed, per key
    ret,            \* history: the latest scan_devices / find_device call, with the
                    \* number of keys add found in the cache
    calls,          \* history: number of scan_devices / find_device calls
    media,          \* the files sony_media_walk yields on the active device
    req,            \* os.path.basename(self.path) of the latest file request of a handler
    wpc,            \* SpecSwap: position of each worker inside _change_device
    wnew,           \* SpecSwap: local new_dev of each worker
    handle,         \* SpecSwap: SonyCameraServer.liveview, 0 = None, else a task
    task,           \* SpecSwap: the LiveviewStreamThread objects created so far
    swaps,          \* SpecSwap: changeDevice requests so far
    late,           \* SpecExit, history: frames handed to a callback since exit()
    tested,         \* SpecExit: the task has passed a loop test and not yet acted on it
    self_id,        \* SpecIds: SonyEndPoint.id of the endpoint the handlers share
    npc,            \* SpecIds: position of each handler thread inside next_id
    nloc,           \* SpecIds: ret and the value read for the sum, per thread
    issued,         \* SpecIds, history: the ids next_id returned, in order of return
    prms,           \* SpecArgs: the parameter spec of a method, as getMethodTypes gave it
    opts,           \* SpecArgs: what _find_options found for the method
    pidx,           \* SpecArgs: entries of prms _parse_arg_spec has been through
    argn,           \* SpecArgs: the local i of _parse_arg_spec
    args,           \* SpecArgs: the local args, a dict kept as the sequence of its items
    tries,          \* SpecAwait: the argument tries of await_state
    wanted,         \* SpecAwait: the argument state of await_state
    att,            \* SpecAwait: rounds of the loop of await_state completed
    awpc,           \* SpecAwait: position inside await_state
    polled          \* SpecAwait, history: the states get_status returned

vars == <<enabled, queues, thread_map, act_threads, pc, gone, hdrbuf, wire,
          active_device, status, camera, frameCnt, stamp, recv, intact,
          lidx, ctx, ppc, pslot, ep_id, sent, call, reply,
          liveview, lv_running, cpc, cnew, chg, steps, feeder,
          lv_stream, lpc, lv_pos, _cnt, done, conns, delivered, slept, fails,
          lastSize, lv_err, socks, qi, services, qstate, received,
          webapi, endpoints, eps, url_vote, bpc,
          store, cache_state, cache, objs, fetches, made, ret, calls,
          media, req, wpc, wnew, handle, task, swaps,
          late, tested, self_id, npc, nloc, issued,
          prms, opts, pidx, argn, args, tries, wanted, att, awpc, polled>>

\* the variables only the statement-level specification changes
conc == <<lidx, ctx, ppc, pslot>>

\* the variables of the RPC side
rpc == <<ep_id, sent, call, reply>>

\* the variables of device switching
switch == <<liveview, lv_running, cpc, cnew, chg, steps, feeder>>

\* the variables of the liveview task
lvt == <<lv_stream, lpc, lv_pos, _cnt, done, conns, delivered, slept, fails,
         lastSize, lv_err>>

\* the variables of discovery
disc == <<socks, qi, services, qstate, received>>

\* the variables of the construction of a device proxy
build == <<webapi, endpoints, eps, url_vote, bpc>>

\* the variables of the device cache
dcache == <<store, cache_state, cache, objs, fetches, made, ret, calls>>

\* the variables of the handler that forwards files of the device
filev == <<media, req>>

\* the variables of concurrent device switching
swapv == <<wpc, wnew, handle, task, swaps>>

\* the variables of the device proxy, the device cache, the file handler and
\* concurrent device switching
\* the variables of the specifications of single methods
idv == <<self_id, npc, nloc, issued>>
argv == <<prms, opts, pidx, argn, args>>
awv == <<tries, wanted, att, awpc, polled>>
solo == <<idv, argv, awv>>
more == <<late, tested, solo>>

ext == <<build, dcache, filev, swapv, more>>

\* the variables outside the streamer, the handlers and the RPC side
aux == <<switch, lvt, disc, ext>>

\* the variables of the liveview side
live == <<enabled, queues, thread_map, act_threads, pc, gone, hdrbuf, wire,
          status, camera, frameCnt, stamp, recv, intact, lidx, ctx, ppc, pslot>>

NoDevice == "None"
Devices == {"devA"}

\* ------------------------------------------------------------ MJPEGStreamer

\* variant of InitEnabled with one entry too many
InitEnabledOneMore == [s \in 0..max_threads |-> FALSE]

\* MJPEGStreamer.__init__: enabled = [False for _ in range(max_threads)]
InitEnabled == [s \in 0..(max_threads - 1) |-> FALSE]

\* MJPEGStreamer.__init__: queues = [queue.Queue() for _ in range(max_threads)]
InitQueues == [s \in 0..(max_threads - 1) |-> <<>>]

\* The scan of _next_idx from position i on: the first index whose entry is
\* not active, -1 when the enumeration is exhausted.
RECURSIVE ScanFrom(_, _)
ScanFrom(en, i) ==
    IF i \notin DOMAIN en THEN -1
    ELSE IF ~en[i] THEN i
    ELSE ScanFrom(en, i + 1)

\* variant of _next_idx whose scan skips the first slot
_next_idx_skip(en) == ScanFrom(en, 1)

_next_idx(en) == ScanFrom(en, 0)

\* variant of Put on a queue with room for one frame only
PutBounded(q, frame) == IF Len(q) >= 1 THEN q ELSE Append(q, frame)

\* queue.Queue.put / get on the FIFO of one slot
Put(q, frame) == Append(q, frame)

\* add_frame: zip(enabled, queues) pairs the two lists, every active pair gets the frame
add_frame(en, qs, frame) ==
    [s \in DOMAIN qs |->
        IF s \in DOMAIN en /\ en[s] THEN Put(qs[s], frame) ELSE qs[s]]

\* ------------------------------------------------------- HTTP response side

StatusLine(code) == <<"HTTP", code>>

\* BaseHTTPRequestHandler.send_header: the header goes to the headers buffer
send_header(buf, name, value) == Append(buf, <<name, value>>)

\* BaseHTTPRequestHandler.send_response: status line, Server and Date go to
\* the headers buffer, behind whatever is already buffered
send_response(buf, code) ==
    buf \o <<StatusLine(code), <<"Server", "SimpleHTTP">>, <<"Date", "now">>>>

\* BaseHTTPRequestHandler.end_headers: blank line, then the buffer is written
end_headers(buf) == buf \o <<<<"", "">>>>

\* The header block of the 200 answer of _mjpeg_request
OkHeaders ==
    end_headers(
      send_header(
        send_header(
          send_header(
            send_header(send_response(<<>>, OK),
                        "Content-Type", "multipart/x-mixed-replace"),
            "Cache-Control", "no-store"),
          "Pragma", "no-cache"),
        "Access-Control-Allow-Origin", "*"))

\* ------------------------------------------------------- SonyCameraServer

\* The answers of camera.getEvent: an error object, or a result whose
\* result[3].liveviewStatus is false / true
CameraAnswers == {"error", "lv_off", "lv_on"}

\* _update_status: False without an active device or without "result" in
\* the answer
_update_status(dev, answer) == dev # NoDevice /\ answer # "error"

\* self.status after _update_status
status_after(dev, answer, old) ==
    IF _update_status(dev, answer) THEN answer ELSE old

\* liveview_available: status[3]["liveviewStatus"] of the refreshed status
liveview_available(dev, answer, old) ==
    IF ~_update_status(dev, answer) THEN FALSE
    ELSE status_after(dev, answer, old) = "lv_on"

\* ------------------------------------------------------------ SonyEndPoint

\* The endpoints of the active device (SonyImagingDevice.endpoints) and the
\* method names its getMethodTypes answers listed for each
EndPoints == {"camera", "avContent"}

Catalog(ep) ==
    IF ep = "camera" THEN {"getEvent", "startLiveview"} ELSE {"getContentCount"}

\* The names a caller may ask for: catalog methods, names that are nowhere,
\* names of SonyEndPoint's own attributes, and no name at all
MethodNames ==
    {"getEvent", "startLiveview", "getContentCount", "bogus", "next_id", "name", ""}

\* variant of next_id that wraps one value early
next_id_early(id) == (id % (ID_MAX - 1)) + 1

\* variant of next_id with the modulus taken after the increment
next_id_mod_last(id) == (id + 1) % ID_MAX

\* next_id: the value of self.id after the call (the call returns the old one)
next_id(id) == (id % ID_MAX) + 1

\* getattr(ep, name): the instance attributes (the bound callables of the
\* catalog; device, name, id), then the class attributes (ID_MAX, next_id,
\* unimplemented_method), then __getattr__, which answers with the stub
getattr_ep(ep, name) ==
    IF name \in Catalog(ep) THEN "bound"
    ELSE IF name \in {"device", "name", "id", "ID_MAX"} THEN "data"
    ELSE IF name = "next_id" THEN "next_id"
    ELSE "stub"

\* unimplemented_method
unimplemented_method(id) ==
    [kind |-> "json", error |-> <<NOT_IMPLEMENTED, "Not Implemented">>, id |-> id]

\* What the POST of request() to the device may end in: an answer with a
\* result, one of the four exceptions request() catches, or one of those
\* http.client raises on a connection that is closed before the status line
\* or inside the body.
DeviceAnswers ==
    {"result", "timeout", "HTTPError", "JSONDecodeError", "URLError",
     "RemoteDisconnected", "IncompleteRead"}

\* the code of an HTTPError answer (err.code), one value standing for all
HTTP_ERROR_CODE == 500

\* request() behind the POST: the result, or the error object of the except
\* clause that matches; an exception no clause matches leaves request()
request_result(answer, id) ==
    IF answer = "result"
    THEN [kind |-> "json", error |-> <<>>, id |-> id]
    ELSE IF answer = "timeout"
    THEN [kind |-> "json", error |-> <<2, "timeout">>, id |-> id]
    ELSE IF answer = "HTTPError"
    THEN [kind |-> "json", error |-> <<HTTP_ERROR_CODE, "reason">>, id |-> id]
    ELSE IF answer = "JSONDecodeError"
    THEN [kind |-> "json", error |-> <<504, "Invalid data in returned JSON">>, id |-> 0]
    ELSE IF answer = "URLError"
    THEN [kind |-> "json", error |-> <<601, "reason">>, id |-> id]
    ELSE [kind |-> answer, error |-> <<>>, id |-> 0]

\* request() for an endpoint that no service of the device offers
no_such_endpoint(id) ==
    [kind |-> "json", error |-> <<504, "No Such API endpoint">>, id |-> id]

\* the service types of the device description (webapi.Services)
Services == EndPoints

\* is_accessible_endpoint
is_accessible_endpoint(dev, ep) ==
    IF dev # NoDevice THEN ep \in EndPoints ELSE FALSE

\* no changeDevice request, no task
NoChange == [dev |-> "", n |-> 0, same |-> FALSE]

InitSwitch ==
    /\ liveview = NoDevice
    /\ lv_running = FALSE
    /\ cpc = "idle"
    /\ cnew = NoDevice
    /\ chg = NoChange
    /\ steps = <<>>
    /\ feeder = NoDevice

\* no payload header parsed yet
NoSize == [frame |-> 0, size |-> 0]

\* the liveview task before start()
InitLvt ==
    /\ lv_stream = <<>>
    /\ lpc = "connect"
    /\ lv_pos = 0
    /\ _cnt = 0
    /\ done = FALSE
    /\ conns = 0
    /\ delivered = <<>>
    /\ slept = 0
    /\ fails = 0
    /\ lastSize = NoSize
    /\ lv_err = "none"

\* the discoverer before a query
InitDisc ==
    /\ socks = <<>>
    /\ qi = 0
    /\ services = <<>>
    /\ qstate = "idle"
    /\ received = <<>>

\* no proxy under construction
InitBuild ==
    /\ webapi = <<>>
    /\ endpoints = {}
    /\ eps = <<>>
    /\ url_vote = <<>>
    /\ bpc = "none"

\* a store on disk: what open and pickle.load make of it, and the mapping
\* it holds
NoStore == [kind |-> "missing", mapping |-> <<>>]
NoRet == [op |-> "none", name |-> "", replies |-> <<>>, result |-> <<>>,
          hits |-> 0, raised |-> FALSE]

\* no device cache
InitCache ==
    /\ store = NoStore
    /\ cache_state = "none"
    /\ cache = <<>>
    /\ objs = 0
    /\ fetches = <<>>
    /\ made = <<>>
    /\ ret = NoRet
    /\ calls = 0

\* no file on the device, no file requested
InitFile ==
    /\ media = <<>>
    /\ req = [c \in Threads |-> ""]

NumWorkers == 2           \* handler threads that run _change_device in SpecSwap
Workers == 1..NumWorkers

\* no worker inside _change_device, no task created
InitSwap ==
    /\ wpc = [w \in Workers |-> "idle"]
    /\ wnew = [w \in Workers |-> NoDevice]
    /\ handle = 0
    /\ task = <<>>
    /\ swaps = 0

\* no method of those specifications has run
NumIdThreads == 2         \* handler threads calling next_id of one endpoint
MaxIds == 3               \* calls of next_id
IdThreads == 1..NumIdThreads

InitIds ==
    /\ self_id = 1
    /\ npc = [t \in IdThreads |-> "idle"]
    /\ nloc = [t \in IdThreads |-> [ret |-> 0, tmp |-> 0]]
    /\ issued = <<>>

InitArgs ==
    /\ prms = <<>>
    /\ opts = <<>>
    /\ pidx = 0
    /\ argn = 0
    /\ args = <<>>

InitAw ==
    /\ tries = 0
    /\ wanted = "IDLE"
    /\ att = 0
    /\ awpc = "off"
    /\ polled = <<>>

InitMore ==
    /\ late = 0
    /\ tested = FALSE
    /\ InitIds
    /\ InitArgs
    /\ InitAw

InitExt == InitBuild /\ InitCache /\ InitFile /\ InitSwap /\ InitMore

InitAux == InitSwitch /\ InitLvt /\ InitDisc /\ InitExt

NoCall == [ep |-> "", method |-> "", via |-> "", n |-> 0, answer |-> "none"]
NoReply == [kind |-> "none", error |-> <<>>, id |-> 0]

\* ------------------------------------------------------------------- Init

Init ==
    /\ enabled = InitEnabled
    /\ queues = InitQueues
    /\ thread_map = [c \in Threads |-> -1]
    /\ act_threads = 0
    /\ pc = [c \in Threads |-> "idle"]
    /\ gone = [c \in Threads |-> FALSE]
    /\ hdrbuf = [c \in Threads |-> <<>>]
    /\ wire = [c \in Threads |-> <<>>]
    /\ active_device \in {NoDevice} \cup Devices
    /\ status = "None"
    /\ camera \in CameraAnswers
    /\ frameCnt = 0
    /\ stamp = [c \in Threads |-> 0]
    /\ recv = [c \in Threads |-> 0]
    /\ intact = [c \in Threads |-> FALSE]
    /\ lidx = [c \in Threads |-> 0]
    /\ ctx = [c \in Threads |-> "none"]
    /\ ppc = "wait"
    /\ pslot = 0
    /\ ep_id = [e \in EndPoints |-> 1]
    /\ sent = <<>>
    /\ call = NoCall
    /\ reply = NoReply
    /\ InitAux

\* ------------------------------------------------- streamer state changes

\* history: the add_frame calls that have returned
FramesAdded == IF ppc = "wait" THEN frameCnt ELSE frameCnt - 1

\* activate, the part after a successful _next_idx
activate_map(tm, c, idx) == [tm EXCEPT ![c] = idx]
activate_enabled(en, idx) == [en EXCEPT ![idx] = TRUE]

\* deactivate: the slot found in thread_map is marked inactive and drained
deactivate_enabled(en, idx) == IF idx < 0 THEN en ELSE [en EXCEPT ![idx] = FALSE]
deactivate_queues(qs, idx) == IF idx < 0 THEN qs ELSE [qs EXCEPT ![idx] = <<>>]
deactivate_count(n, idx) == IF idx < 0 THEN n ELSE n - 1

\* history: every thread bound to slot idx loses the frames of its session
Broken(tm, idx) == {d \in Threads : tm[d] = idx}

\* ---------------------------------------------------------------- actions

\* do_GET -> _mjpeg_request up to the first get_frame: availability check,
\* activate, and the header block of the answer.  The two device calls of
\* liveview_available (getEvent, startLiveview) draw ids from the camera
\* endpoint; they are the Direct invocations of SpecRpc.
MjpegRequest(c) ==
    /\ UNCHANGED <<rpc, aux>>
    /\ pc[c] = "idle"
    /\ status' = status_after(active_device, camera, status)
    /\ UNCHANGED <<queues, gone, active_device, camera, frameCnt, conc>>
    /\ IF ~liveview_available(active_device, camera, status)
       THEN /\ hdrbuf' = [hdrbuf EXCEPT ![c] =
                    send_response(send_header(<<>>, "Retry-After", RETRY_AFTER),
                                  SERVICE_UNAVAILABLE)]
            /\ pc' = [pc EXCEPT ![c] = "closed"]
            /\ UNCHANGED <<enabled, thread_map, act_threads, wire, stamp, recv, intact>>
       ELSE LET idx == _next_idx(enabled) IN
            IF idx < 0
            THEN /\ hdrbuf' = [hdrbuf EXCEPT ![c] =
                         send_response(send_header(<<>>, "Retry-After", RETRY_AFTER),
                                       TOO_MANY_REQUESTS)]
                 /\ pc' = [pc EXCEPT ![c] = "closed"]
                 /\ UNCHANGED <<enabled, thread_map, act_threads, wire, stamp, recv, intact>>
            ELSE /\ thread_map' = activate_map(thread_map, c, idx)
                 /\ act_threads' = act_threads + 1
                 /\ enabled' = activate_enabled(enabled, idx)
                 /\ wire' = [wire EXCEPT ![c] = OkHeaders]
                 /\ hdrbuf' = hdrbuf
                 /\ pc' = [pc EXCEPT ![c] = "stream"]
                 /\ stamp' = [stamp EXCEPT ![c] = FramesAdded]
                 /\ recv' = [recv EXCEPT ![c] = 0]
                 /\ intact' = [intact EXCEPT ![c] = TRUE]

\* One round of the streaming loop: get_frame (blocks on an empty queue),
\* then the part is written. A closed connection raises BrokenPipeError,
\* which leaves the loop; a frame that came early (paced = TRUE) deactivates
\* the slot for the pacing sleep.
StreamFrame(c, paced) ==
    /\ UNCHANGED <<rpc, aux>>
    /\ pc[c] = "stream"
    /\ LET idx == thread_map[c]
           frame == Head(queues[idx])
           rest == [queues EXCEPT ![idx] = Tail(queues[idx])]
       IN
       /\ queues[idx] # <<>>
       /\ recv' = [recv EXCEPT ![c] = frame]
       /\ IF gone[c]
          THEN /\ queues' = rest
               /\ pc' = [pc EXCEPT ![c] = "break"]
               /\ UNCHANGED <<enabled, act_threads, intact>>
          ELSE IF paced
          THEN /\ enabled' = deactivate_enabled(enabled, idx)
               /\ queues' = deactivate_queues(rest, idx)
               /\ act_threads' = deactivate_count(act_threads, idx)
               /\ intact' = [d \in Threads |->
                                intact[d] /\ d \notin Broken(thread_map, idx)]
               /\ pc' = [pc EXCEPT ![c] = "sleep"]
          ELSE /\ queues' = rest
               /\ UNCHANGED <<enabled, act_threads, intact, pc>>
    /\ UNCHANGED <<thread_map, gone, hdrbuf, wire, active_device, status, camera,
                   frameCnt, stamp, conc>>

\* End of the pacing sleep: activate again; when no slot is free the loop
\* is left.
Wake(c) ==
    /\ UNCHANGED <<rpc, aux>>
    /\ pc[c] = "sleep"
    /\ LET idx == _next_idx(enabled) IN
       IF idx < 0
       THEN /\ pc' = [pc EXCEPT ![c] = "break"]
            /\ UNCHANGED <<enabled, thread_map, act_threads, stamp, recv, intact>>
       ELSE /\ thread_map' = activate_map(thread_map, c, idx)
            /\ act_threads' = act_threads + 1
            /\ enabled' = activate_enabled(enabled, idx)
            /\ pc' = [pc EXCEPT ![c] = "stream"]
            /\ stamp' = [stamp EXCEPT ![c] = FramesAdded]
            /\ recv' = [recv EXCEPT ![c] = 0]
            /\ intact' = [intact EXCEPT ![c] = TRUE]
    /\ UNCHANGED <<queues, gone, hdrbuf, wire, active_device, status, camera, frameCnt,
                   conc>>

\* Behind the loop: streamer.deactivate(), then the handler returns.
Leave(c) ==
    /\ UNCHANGED <<rpc, aux>>
    /\ pc[c] = "break"
    /\ LET idx == thread_map[c] IN
       /\ enabled' = deactivate_enabled(enabled, idx)
       /\ queues' = deactivate_queues(queues, idx)
       /\ act_threads' = deactivate_count(act_threads, idx)
       /\ intact' = [d \in Threads |->
                        intact[d] /\ d \notin Broken(thread_map, idx)]
    /\ pc' = [pc EXCEPT ![c] = "closed"]
    /\ UNCHANGED <<thread_map, gone, hdrbuf, wire, active_device, status, camera,
                   frameCnt, stamp, recv, conc>>

\* The client closes its connection while its handler runs.
Disconnect(c) ==
    /\ UNCHANGED <<rpc, aux>>
    /\ pc[c] \notin {"idle", "closed"}
    /\ ~gone[c]
    /\ gone' = [gone EXCEPT ![c] = TRUE]
    /\ UNCHANGED <<enabled, queues, thread_map, act_threads, pc, hdrbuf, wire,
                   active_device, status, camera, frameCnt, stamp, recv, intact, conc>>

\* The handler has returned: the connection is closed and the thread is
\* free for the next request.
Finish(c) ==
    /\ UNCHANGED <<rpc, aux>>
    /\ pc[c] = "closed"
    /\ pc' = [pc EXCEPT ![c] = "idle"]
    /\ gone' = [gone EXCEPT ![c] = FALSE]
    /\ hdrbuf' = [hdrbuf EXCEPT ![c] = <<>>]
    /\ wire' = [wire EXCEPT ![c] = <<>>]
    /\ UNCHANGED <<enabled, queues, thread_map, act_threads,
                   active_device, status, camera, frameCnt, stamp, recv, intact, conc>>

\* The liveview thread hands one JPEG frame to add_frame.
AddFrame ==
    /\ UNCHANGED <<rpc, aux>>
    /\ frameCnt < MaxFrames
    /\ frameCnt' = frameCnt + 1
    /\ queues' = add_frame(enabled, queues, frameCnt + 1)
    /\ UNCHANGED <<enabled, thread_map, act_threads, pc, gone, hdrbuf, wire,
                   active_device, status, camera, stamp, recv, intact, conc>>

\* The device changes what it answers to getEvent.
CameraChange ==
    /\ UNCHANGED <<rpc, aux>>
    /\ \E a \in CameraAnswers \ {camera} : camera' = a
    /\ UNCHANGED <<enabled, queues, thread_map, act_threads, pc, gone, hdrbuf, wire,
                   active_device, status, frameCnt, stamp, recv, intact, conc>>

Next ==
    \/ \E c \in Threads : MjpegRequest(c)
    \/ \E c \in Threads : \E paced \in BOOLEAN : StreamFrame(c, paced)
    \/ \E c \in Threads : Wake(c)
    \/ \E c \in Threads : Leave(c)
    \/ \E c \in Threads : Disconnect(c)
    \/ \E c \in Threads : Finish(c)
    \/ AddFrame
    \/ CameraChange

Spec == Init /\ [][Next]_vars

\* ------------------------------------------- statement-level interleaving
\* The streamer takes no lock: handler threads and the liveview thread run
\* its methods statement by statement.  pc values of a handler thread:
\*   a_scan a_map a_cnt a_en   inside activate (lines 200, 203, 204, 205)
\*   d_dis d_clr d_cnt         inside deactivate (lines 222, 224, 225)
\* ctx is the call site: "first" (line 48), "again" (line 81),
\* "pace" (line 77), "last" (line 92).

history == <<stamp, recv, intact>>

\* _mjpeg_request up to the call of activate
CRequest(c) ==
    /\ UNCHANGED <<rpc, aux>>
    /\ pc[c] = "idle"
    /\ status' = status_after(active_device, camera, status)
    /\ IF ~liveview_available(active_device, camera, status)
       THEN /\ hdrbuf' = [hdrbuf EXCEPT ![c] =
                    send_response(send_header(<<>>, "Retry-After", RETRY_AFTER),
                                  SERVICE_UNAVAILABLE)]
            /\ pc' = [pc EXCEPT ![c] = "closed"]
            /\ UNCHANGED <<lidx, ctx, stamp, recv>>
       ELSE /\ pc' = [pc EXCEPT ![c] = "a_scan"]
            /\ lidx' = [lidx EXCEPT ![c] = 0]
            /\ ctx' = [ctx EXCEPT ![c] = "first"]
            /\ stamp' = [stamp EXCEPT ![c] = FramesAdded]
            /\ recv' = [recv EXCEPT ![c] = 0]
            /\ hdrbuf' = hdrbuf
    /\ UNCHANGED <<enabled, queues, thread_map, act_threads, gone, wire,
                   active_device, camera, frameCnt, intact, ppc, pslot>>

\* _next_idx, one round of its loop; an exhausted loop returns -1 and
\* activate returns False: 429 at the first call site, break at the second
AScan(c) ==
    /\ UNCHANGED <<rpc, aux>>
    /\ pc[c] = "a_scan"
    /\ IF lidx[c] \notin DOMAIN enabled
       THEN IF ctx[c] = "first"
            THEN /\ hdrbuf' = [hdrbuf EXCEPT ![c] =
                         send_response(send_header(<<>>, "Retry-After", RETRY_AFTER),
                                       TOO_MANY_REQUESTS)]
                 /\ pc' = [pc EXCEPT ![c] = "closed"]
                 /\ UNCHANGED <<lidx, ctx>>
            ELSE /\ pc' = [pc EXCEPT ![c] = "d_dis"]
                 /\ ctx' = [ctx EXCEPT ![c] = "last"]
                 /\ UNCHANGED <<lidx, hdrbuf>>
       ELSE IF ~enabled[lidx[c]]
            THEN /\ pc' = [pc EXCEPT ![c] = "a_map"]
                 /\ UNCHANGED <<lidx, ctx, hdrbuf>>
            ELSE /\ lidx' = [lidx EXCEPT ![c] = lidx[c] + 1]
                 /\ UNCHANGED <<pc, ctx, hdrbuf>>
    /\ UNCHANGED <<enabled, queues, thread_map, act_threads, gone, wire,
                   active_device, status, camera, frameCnt, history, ppc, pslot>>

\* self.thread_map[tid] = idx
AMap(c) ==
    /\ UNCHANGED <<rpc, aux>>
    /\ pc[c] = "a_map"
    /\ thread_map' = activate_map(thread_map, c, lidx[c])
    /\ pc' = [pc EXCEPT ![c] = "a_cnt"]
    /\ UNCHANGED <<enabled, queues, act_threads, gone, hdrbuf, wire,
                   active_device, status, camera, frameCnt, history, conc>>

\* self.act_threads += 1
ACnt(c) ==
    /\ UNCHANGED <<rpc, aux>>
    /\ pc[c] = "a_cnt"
    /\ act_threads' = act_threads + 1
    /\ pc' = [pc EXCEPT ![c] = "a_en"]
    /\ UNCHANGED <<enabled, queues, thread_map, gone, hdrbuf, wire,
                   active_device, status, camera, frameCnt, history, conc>>

\* self.enabled[idx] = True; activate returns True, at the first call site
\* the header block of the 200 answer follows
AEn(c) ==
    /\ UNCHANGED <<rpc, aux>>
    /\ pc[c] = "a_en"
    /\ enabled' = activate_enabled(enabled, lidx[c])
    /\ pc' = [pc EXCEPT ![c] = "stream"]
    /\ wire' = IF ctx[c] = "first" THEN [wire EXCEPT ![c] = OkHeaders] ELSE wire
    /\ UNCHANGED <<queues, thread_map, act_threads, gone, hdrbuf,
                   active_device, status, camera, frameCnt, history, conc>>

\* get_frame and the write of the part
CGet(c, paced) ==
    /\ UNCHANGED <<rpc, aux>>
    /\ pc[c] = "stream"
    /\ LET s == thread_map[c] IN
       /\ queues[s] # <<>>
       /\ recv' = [recv EXCEPT ![c] = Head(queues[s])]
       /\ queues' = [queues EXCEPT ![s] = Tail(queues[s])]
    /\ IF gone[c]
       THEN /\ pc' = [pc EXCEPT ![c] = "d_dis"]
            /\ ctx' = [ctx EXCEPT ![c] = "last"]
       ELSE IF paced
       THEN /\ pc' = [pc EXCEPT ![c] = "d_dis"]
            /\ ctx' = [ctx EXCEPT ![c] = "pace"]
       ELSE UNCHANGED <<pc, ctx>>
    /\ UNCHANGED <<enabled, thread_map, act_threads, gone, hdrbuf, wire,
                   active_device, status, camera, frameCnt, stamp, intact,
                   lidx, ppc, pslot>>

\* self.enabled[idx] = False
DDis(c) ==
    /\ UNCHANGED <<rpc, aux>>
    /\ pc[c] = "d_dis"
    /\ enabled' = deactivate_enabled(enabled, thread_map[c])
    /\ pc' = [pc EXCEPT ![c] = "d_clr"]
    /\ UNCHANGED <<queues, thread_map, act_threads, gone, hdrbuf, wire,
                   active_device, status, camera, frameCnt, history, conc>>

\* with self.queues[idx].mutex: self.queues[idx].queue.clear()
DClr(c) ==
    /\ UNCHANGED <<rpc, aux>>
    /\ pc[c] = "d_clr"
    /\ queues' = deactivate_queues(queues, thread_map[c])
    /\ pc' = [pc EXCEPT ![c] = "d_cnt"]
    /\ UNCHANGED <<enabled, thread_map, act_threads, gone, hdrbuf, wire,
                   active_device, status, camera, frameCnt, history, conc>>

\* self.act_threads -= 1; deactivate returns
DCnt(c) ==
    /\ UNCHANGED <<rpc, aux>>
    /\ pc[c] = "d_cnt"
    /\ act_threads' = deactivate_count(act_threads, thread_map[c])
    /\ pc' = [pc EXCEPT ![c] = IF ctx[c] = "pace" THEN "sleep" ELSE "closed"]
    /\ UNCHANGED <<enabled, queues, thread_map, gone, hdrbuf, wire,
                   active_device, status, camera, frameCnt, history, conc>>

\* end of the pacing sleep: the second call of activate begins
CWake(c) ==
    /\ UNCHANGED <<rpc, aux>>
    /\ pc[c] = "sleep"
    /\ pc' = [pc EXCEPT ![c] = "a_scan"]
    /\ lidx' = [lidx EXCEPT ![c] = 0]
    /\ ctx' = [ctx EXCEPT ![c] = "again"]
    /\ stamp' = [stamp EXCEPT ![c] = FramesAdded]
    /\ recv' = [recv EXCEPT ![c] = 0]
    /\ UNCHANGED <<enabled, queues, thread_map, act_threads, gone, hdrbuf, wire,
                   active_device, status, camera, frameCnt, intact, ppc, pslot>>

\* the liveview thread calls add_frame with the next frame
PStart ==
    /\ UNCHANGED <<rpc, aux>>
    /\ ppc = "wait"
    /\ frameCnt < MaxFrames
    /\ frameCnt' = frameCnt + 1
    /\ ppc' = "check"
    /\ pslot' = 0
    /\ UNCHANGED <<enabled, queues, thread_map, act_threads, pc, gone, hdrbuf, wire,
                   active_device, status, camera, history, lidx, ctx>>

\* add_frame: the next pair of zip(enabled, queues), and its test "if active"
PCheck ==
    /\ UNCHANGED <<rpc, aux>>
    /\ ppc = "check"
    /\ IF pslot \notin (DOMAIN enabled \cap DOMAIN queues)
       THEN ppc' = "wait" /\ pslot' = pslot
       ELSE IF enabled[pslot]
            THEN ppc' = "put" /\ pslot' = pslot
            ELSE ppc' = "check" /\ pslot' = pslot + 1
    /\ UNCHANGED <<enabled, queues, thread_map, act_threads, pc, gone, hdrbuf, wire,
                   active_device, status, camera, frameCnt, history, lidx, ctx>>

\* add_frame: lifo.put(frame)
PPut ==
    /\ UNCHANGED <<rpc, aux>>
    /\ ppc = "put"
    /\ queues' = [queues EXCEPT ![pslot] = Put(queues[pslot], frameCnt)]
    /\ ppc' = "check"
    /\ pslot' = pslot + 1
    /\ UNCHANGED <<enabled, thread_map, act_threads, pc, gone, hdrbuf, wire,
                   active_device, status, camera, frameCnt, history, lidx, ctx>>

InitConc ==
    /\ Init
    /\ active_device \in Devices
    /\ camera = "lv_on"

NextConc ==
    \/ \E c \in ConcThreads : CRequest(c)
    \/ \E c \in ConcThreads : AScan(c)
    \/ \E c \in ConcThreads : AMap(c)
    \/ \E c \in ConcThreads : ACnt(c)
    \/ \E c \in ConcThreads : AEn(c)
    \/ \E c \in ConcThreads : \E paced \in BOOLEAN : CGet(c, paced)
    \/ \E c \in ConcThreads : DDis(c)
    \/ \E c \in ConcThreads : DClr(c)
    \/ \E c \in ConcThreads : DCnt(c)
    \/ \E c \in ConcThreads : CWake(c)
    \/ \E c \in ConcThreads : Disconnect(c)
    \/ \E c \in ConcThreads : Finish(c)
    \/ PStart
    \/ PCheck
    \/ PPut

SpecConc == InitConc /\ [][NextConc]_vars

\* ------------------------------------------------------------ RPC dispatch

\* method(**params) for the attribute that getattr found on the endpoint:
\* a bound callable draws the id from next_id and posts the request; the
\* stub answers 501 with the current id; next_id itself is callable and
\* returns the id; a data attribute is not callable (TypeError).
Invoke(ep, m, via, answer) ==
    /\ call' = [ep |-> ep, method |-> m, via |-> via, n |-> call.n + 1,
                answer |-> IF getattr_ep(ep, m) = "bound" THEN answer ELSE "none"]
    /\ LET attr == getattr_ep(ep, m) IN
       IF attr = "bound"
       THEN /\ sent' = Append(sent, [ep |-> ep, method |-> m, id |-> ep_id[ep]])
            /\ ep_id' = [ep_id EXCEPT ![ep] = next_id(ep_id[ep])]
            /\ reply' = request_result(answer, ep_id[ep])
       ELSE IF attr = "next_id"
       THEN /\ ep_id' = [ep_id EXCEPT ![ep] = next_id(ep_id[ep])]
            /\ reply' = [kind |-> "int", error |-> <<>>, id |-> ep_id[ep]]
            /\ sent' = sent
       ELSE IF attr = "data"
       THEN /\ reply' = [kind |-> "TypeError", error |-> <<>>, id |-> 0]
            /\ UNCHANGED <<ep_id, sent>>
       ELSE /\ reply' = unimplemented_method(ep_id[ep])
            /\ UNCHANGED <<ep_id, sent>>

\* do_POST for a path other than /server, and _method.  A path that is not
\* an accessible endpoint gets send_response(501) and nothing else (kind
\* "status": a status line in the headers buffer, no body); _method's own
\* test of the active device comes behind is_accessible_endpoint.
Post(path, m, answer) ==
    /\ call.n < MaxCalls
    /\ UNCHANGED <<live, active_device, aux>>
    /\ IF ~is_accessible_endpoint(active_device, path)
       THEN /\ call' = [ep |-> path, method |-> m, via |-> "POST", n |-> call.n + 1,
                         answer |-> "none"]
            /\ reply' = [kind |-> "status", error |-> <<NOT_IMPLEMENTED, "">>, id |-> 0]
            /\ UNCHANGED <<ep_id, sent>>
       ELSE IF active_device = NoDevice
       THEN /\ call' = [ep |-> path, method |-> m, via |-> "POST", n |-> call.n + 1,
                         answer |-> "none"]
            /\ reply' = [kind |-> "json",
                         error |-> <<NOT_FOUND, "No Device Connected">>, id |-> 0]
            /\ UNCHANGED <<ep_id, sent>>
       ELSE IF m = ""
       THEN /\ call' = [ep |-> path, method |-> m, via |-> "POST", n |-> call.n + 1,
                         answer |-> "none"]
            /\ reply' = [kind |-> "json",
                         error |-> <<NOT_IMPLEMENTED, "Not implemented">>, id |-> 0]
            /\ UNCHANGED <<ep_id, sent>>
       ELSE Invoke(path, m, "POST", answer)

\* dev.<endpoint>.<name>() from inside the process
Direct(ep, m, answer) ==
    /\ call.n < MaxCalls
    /\ active_device # NoDevice
    /\ m # ""
    /\ UNCHANGED <<live, active_device, aux>>
    /\ Invoke(ep, m, "direct", answer)

\* self.request("guide", ..., id=1) of _build_endpoints, for a device whose
\* description offers no guide service: request() returns before it posts
RawRequest(endpoint) ==
    /\ call.n < MaxCalls
    /\ endpoint \notin Services
    /\ UNCHANGED <<live, active_device, aux, ep_id, sent>>
    /\ call' = [ep |-> endpoint, method |-> "getServiceProtocols", via |-> "request",
                n |-> call.n + 1, answer |-> "absent"]
    /\ reply' = no_such_endpoint(1)

\* Any number of requests may have gone through an endpoint before: its
\* counter starts anywhere on its cycle, here at the start and near the wrap.
InitRpc ==
    /\ enabled = InitEnabled
    /\ queues = InitQueues
    /\ thread_map = [c \in Threads |-> -1]
    /\ act_threads = 0
    /\ pc = [c \in Threads |-> "idle"]
    /\ gone = [c \in Threads |-> FALSE]
    /\ hdrbuf = [c \in Threads |-> <<>>]
    /\ wire = [c \in Threads |-> <<>>]
    /\ active_device \in {NoDevice} \cup Devices
    /\ status = "None"
    /\ camera = "lv_on"
    /\ frameCnt = 0
    /\ stamp = [c \in Threads |-> 0]
    /\ recv = [c \in Threads |-> 0]
    /\ intact = [c \in Threads |-> FALSE]
    /\ lidx = [c \in Threads |-> 0]
    /\ ctx = [c \in Threads |-> "none"]
    /\ ppc = "wait"
    /\ pslot = 0
    /\ ep_id \in [EndPoints -> {1, ID_MAX - 1}]
    /\ sent = <<>>
    /\ call = NoCall
    /\ reply = NoReply
    /\ InitAux

NextRpc ==
    \/ \E path \in EndPoints \cup {"nosuch"} : \E m \in MethodNames :
           \E answer \in DeviceAnswers : Post(path, m, answer)
    \/ \E ep \in EndPoints : \E m \in MethodNames :
           \E answer \in DeviceAnswers : Direct(ep, m, answer)
    \/ RawRequest("guide")

SpecRpc == InitRpc /\ [][NextRpc]_vars

\* --------------------------------------------------------- device switching
\* POST /server {method: changeDevice} runs _change_device in a handler
\* thread while the liveview task runs in a thread of its own.  cpc values:
\*   set (line 333)  status (line 334)  start (lines 288-292)
\*   stop (lines 294, 298-302)  new (lines 295-296)

MaxChanges == 3           \* changeDevice requests in SpecDev

\* SonyCameraServer.devices, by device_name
devices == {"devA", "devB"}

\* what the new device answers to camera.startLiveview
StartAnswers == {"result", "error"}

\* variant of find_device that falls back on a device of the list
find_device_fallback(name) == IF name \in devices THEN name ELSE "devA"

\* _change_device: the last device of self.devices with the name asked for
find_device(name) == IF name \in devices THEN name ELSE NoDevice

\* variant of should_change that does not compare with the active device
should_change_any(new_dev, cur) == new_dev # NoDevice

\* _change_device: new_dev and new_dev.device_name != cur_dev_name
should_change(new_dev, cur) == new_dev # NoDevice /\ new_dev # cur

\* _change_device up to its test
ChangeDevice(name) ==
    /\ cpc = "idle"
    /\ chg.n < MaxChanges
    /\ chg' = [dev |-> name, n |-> chg.n + 1, same |-> (name = active_device)]
    /\ IF should_change(find_device(name), active_device)
       THEN /\ cpc' = "set"
            /\ cnew' = find_device(name)
            /\ steps' = <<>>
       ELSE UNCHANGED <<cpc, cnew, steps>>
    /\ UNCHANGED <<live, rpc, ext, lvt, disc, active_device, liveview, lv_running, feeder>>

\* self.active_device = new_dev
CSet ==
    /\ cpc = "set"
    /\ active_device' = cnew
    /\ steps' = Append(steps, "set")
    /\ cpc' = "status"
    /\ UNCHANGED <<live, rpc, ext, lvt, disc, liveview, lv_running, cnew, chg, feeder>>

\* self._update_status()
CStatus ==
    /\ cpc = "status"
    /\ status' = status_after(active_device, camera, status)
    /\ steps' = Append(steps, "refresh")
    /\ cpc' = "start"
    /\ UNCHANGED <<enabled, queues, thread_map, act_threads, pc, gone, hdrbuf, wire,
                   camera, frameCnt, stamp, recv, intact, conc>>
    /\ UNCHANGED <<rpc, ext, lvt, disc, active_device, liveview, lv_running, cnew, chg, feeder>>

\* _start_liveview: camera.startLiveview() of the new device; without a
\* result nothing else happens
CStart(answer) ==
    /\ cpc = "start"
    /\ cpc' = IF active_device # NoDevice /\ answer = "result" THEN "stop" ELSE "idle"
    /\ UNCHANGED <<live, rpc, ext, lvt, disc, active_device, liveview, lv_running, cnew, chg, steps,
                   feeder>>

\* _stop_liveview: exit() and join() of the running task
CStop ==
    /\ cpc = "stop"
    /\ IF active_device # NoDevice /\ liveview # NoDevice
       THEN /\ lv_running' = FALSE
            /\ steps' = Append(steps, "stop")
       ELSE UNCHANGED <<lv_running, steps>>
    /\ cpc' = "new"
    /\ UNCHANGED <<live, rpc, ext, lvt, disc, active_device, liveview, cnew, chg, feeder>>

\* self.liveview = LiveviewStreamThread(url, callback); self.liveview.start()
CNew ==
    /\ cpc = "new"
    /\ liveview' = active_device
    /\ lv_running' = TRUE
    /\ steps' = Append(steps, "start")
    /\ cpc' = "idle"
    /\ UNCHANGED <<live, rpc, ext, lvt, disc, active_device, cnew, chg, feeder>>

\* the running liveview task hands a frame to streamer.add_frame
Feed ==
    /\ lv_running
    /\ frameCnt < MaxFrames
    /\ frameCnt' = frameCnt + 1
    /\ queues' = add_frame(enabled, queues, frameCnt + 1)
    /\ feeder' = liveview
    /\ UNCHANGED <<enabled, thread_map, act_threads, pc, gone, hdrbuf, wire,
                   status, camera, stamp, recv, intact, conc>>
    /\ UNCHANGED <<rpc, ext, lvt, disc, active_device, liveview, lv_running, cpc, cnew, chg, steps>>

\* The server after __init__: no device, or the first device found, with
\* its liveview task running unless startLiveview gave no result.
InitDev ==
    /\ InitExt
    /\ enabled = InitEnabled
    /\ queues = InitQueues
    /\ thread_map = [c \in Threads |-> -1]
    /\ act_threads = 0
    /\ pc = [c \in Threads |-> "idle"]
    /\ gone = [c \in Threads |-> FALSE]
    /\ hdrbuf = [c \in Threads |-> <<>>]
    /\ wire = [c \in Threads |-> <<>>]
    /\ active_device \in {NoDevice} \cup devices
    /\ camera \in CameraAnswers
    /\ status = status_after(active_device, camera, "None")
    /\ frameCnt = 0
    /\ stamp = [c \in Threads |-> 0]
    /\ recv = [c \in Threads |-> 0]
    /\ intact = [c \in Threads |-> FALSE]
    /\ lidx = [c \in Threads |-> 0]
    /\ ctx = [c \in Threads |-> "none"]
    /\ ppc = "wait"
    /\ pslot = 0
    /\ ep_id = [e \in EndPoints |-> 1]
    /\ sent = <<>>
    /\ call = NoCall
    /\ reply = NoReply
    /\ liveview \in {NoDevice, active_device}
    /\ lv_running = (liveview # NoDevice)
    /\ cpc = "idle"
    /\ cnew = NoDevice
    /\ chg = NoChange
    /\ steps = <<>>
    /\ feeder = NoDevice
    /\ InitLvt
    /\ InitDisc

NextDev ==
    \/ \E name \in devices \cup {"nosuch"} : ChangeDevice(name)
    \/ CSet
    \/ CStatus
    \/ \E answer \in StartAnswers : CStart(answer)
    \/ CStop
    \/ CNew
    \/ Feed
    \/ CameraChange

SpecDev == InitDev /\ [][NextDev]_vars

\* -------------------------------------------------- LiveviewStreamThread
\* The camera serves the same framed stream on every connection.  A frame
\* is kept as the fields of its two headers plus the number of body and
\* padding bytes that follow them in the stream; reading is counting bytes.

MaxStreamFrames == 2      \* frames in the stream of the camera
MaxConns == 6             \* urlopen calls of the liveview task

JPEG_DATA == 1
FRAME_DATA == 2
START_BYTE == 255
START_CODE == 607479929
MAX_JPEG_SIZE == 100000
MAX_BACKOFF == 16
COMMON_HEADER_SIZE == 8
PAYLOAD_HEADER_SIZE == 128
FRAME_INFO_SIZE == 16

\* the three size bytes of a payload header as the camera writes them,
\* most significant first
Encode3(n) == <<n \div 65536, (n \div 256) % 256, n % 256>>

\* a JPEG frame with a body of len bytes and pad bytes of padding
JpegFrame(len, pad) ==
    [start_byte |-> START_BYTE, payload_type |-> JPEG_DATA,
     start_code |-> START_CODE, size |-> Encode3(len), padding_size |-> pad,
     flag |-> 0, frame_count |-> 0, frame_size |-> 0, body |-> len, pad |-> pad]

\* a frame-info frame with n records
InfoFrame(n, pad) ==
    [start_byte |-> START_BYTE, payload_type |-> FRAME_DATA,
     start_code |-> START_CODE, size |-> Encode3(n * FRAME_INFO_SIZE),
     padding_size |-> pad, flag |-> 0, frame_count |-> n,
     frame_size |-> FRAME_INFO_SIZE, body |-> n * FRAME_INFO_SIZE, pad |-> pad]

\* body lengths: small, more than one byte wide, and both sides of the limit
BodyLens == {1, 256, MAX_JPEG_SIZE, MAX_JPEG_SIZE + 1}

FrameKinds ==
    {JpegFrame(len, pad) : len \in BodyLens, pad \in {0, 3}}
    \cup {InfoFrame(n, 0) : n \in {1, 2}}

Streams == UNION {[1..n -> FrameKinds] : n \in 1..MaxStreamFrames}

FrameLen(f) == COMMON_HEADER_SIZE + PAYLOAD_HEADER_SIZE + f.body + f.pad

\* the offset of frame k in the stream (k = Len + 1: the end of the stream)
RECURSIVE StartOf(_, _)
StartOf(st, k) == IF k <= 1 THEN 0 ELSE StartOf(st, k - 1) + FrameLen(st[k - 1])

\* the frame that starts at offset pos, 0 when none does
FrameAt(st, pos) ==
    IF \E k \in 1..(Len(st) + 1) : StartOf(st, k) = pos
    THEN CHOOSE k \in 1..(Len(st) + 1) : StartOf(st, k) = pos
    ELSE 0

\* variant of common_header that takes any start byte
common_header_any(f) == "ok"

\* common_header: the check of the start byte
common_header(f) == IF f.start_byte # START_BYTE THEN "RuntimeError" ELSE "ok"

\* payload_header: jpeg_data_size_0 * 2**0 + jpeg_data_size_1 * 2**8 +
\* jpeg_data_size_2 * 2**16, the bytes unpacked in the order _2, _1, _0
jpeg_data_size(sz) == sz[3] * 1 + sz[2] * 256 + sz[1] * 65536

\* variant of size_ok that rejects the limit itself
size_ok_below(n) == ~(n >= MAX_JPEG_SIZE)

\* payload_header: if jpeg_data_size > 100000: raise RuntimeError
size_ok(n) == ~(n > MAX_JPEG_SIZE)

\* payload_header and payload_header_jpeg: the checks that raise
payload_header(f) ==
    IF f.start_code # START_CODE THEN "RuntimeError"
    ELSE IF ~size_ok(jpeg_data_size(f.size)) THEN "RuntimeError"
    ELSE IF f.payload_type = JPEG_DATA
    THEN (IF f.flag # 0 THEN "RuntimeError" ELSE "ok")
    ELSE IF f.payload_type = FRAME_DATA THEN "ok"
    ELSE "RuntimeError"

\* _grab_liveview: the bytes read as the body of a frame
BodyRead(f) ==
    IF f.payload_type = JPEG_DATA THEN jpeg_data_size(f.size)
    ELSE f.frame_count * f.frame_size

\* variant of PaddingRead that leaves the padding in the stream
PaddingSkipped(f) == 0

\* _grab_liveview: session.read(payload['padding_size'])
PaddingRead(f) == f.padding_size

\* variant of cnt_after_frame that resets on JPEG frames only
cnt_after_jpeg(f, cnt) == IF f.payload_type = JPEG_DATA THEN 0 ELSE cnt

\* _grab_liveview: self._cnt = 0 behind the padding of every frame
cnt_after_frame(f, cnt) == 0

\* BACKOFF.get(cnt, MAX_BACKOFF)
BACKOFF(cnt) ==
    CASE cnt = 0 -> 1
      [] cnt = 1 -> 2
      [] cnt = 2 -> 4
      [] cnt = 3 -> 8
      [] cnt = 4 -> 16
      [] OTHER -> MAX_BACKOFF

\* run: the except clause of a transient failure, _backoff included; the
\* loop of run then calls _grab_liveview again
Backoff ==
    /\ _cnt' = _cnt + 1
    /\ slept' = BACKOFF(_cnt + 1)
    /\ fails' = fails + 1
    /\ lpc' = "connect"
    /\ UNCHANGED <<lv_stream, done, delivered, lastSize, lv_err>>

\* run: the except clause of an unexpected exception raises it again and
\* the thread ends
Fatal(e) ==
    /\ lpc' = "dead"
    /\ lv_err' = e
    /\ UNCHANGED <<lv_stream, _cnt, done, delivered, slept, fails>>

\* _grab_liveview: urlopen(self.lv_url) and what follows it
Open(outcome) ==
    /\ conns' = conns + 1
    /\ IF outcome = "ok"
       THEN /\ lpc' = "frame"
            /\ lv_pos' = 0
            /\ delivered' = <<>>
            /\ UNCHANGED <<lv_stream, _cnt, done, slept, fails, lastSize, lv_err>>
       ELSE Backoff /\ lv_pos' = lv_pos

\* run -> _grab_liveview: urlopen(self.lv_url)
Connect(outcome) ==
    /\ lpc = "connect"
    /\ ~done
    /\ conns < MaxConns
    /\ Open(outcome)
    /\ UNCHANGED <<live, rpc, ext, active_device, switch, disc>>

\* the statements of one round of the loop of _grab_liveview behind its
\* test, see GrabFrame
GrabBody(broken) ==
    LET k == FrameAt(lv_stream, lv_pos)
        total == StartOf(lv_stream, Len(lv_stream) + 1)
    IN
    IF broken THEN Backoff /\ lv_pos' = lv_pos
    ELSE IF k = 0
    THEN Fatal("RuntimeError") /\ UNCHANGED <<lv_pos, lastSize>>
    ELSE IF k > Len(lv_stream)
    THEN Fatal("struct.error") /\ UNCHANGED <<lv_pos, lastSize>>
    ELSE LET f == lv_stream[k]
             size == jpeg_data_size(f.size)
             body_end == lv_pos + COMMON_HEADER_SIZE + PAYLOAD_HEADER_SIZE
                         + BodyRead(f)
         IN
         IF common_header(f) # "ok"
         THEN Fatal("RuntimeError") /\ UNCHANGED <<lv_pos, lastSize>>
         ELSE IF payload_header(f) # "ok"
         THEN /\ Fatal("RuntimeError")
              /\ lastSize' = [frame |-> k, size |-> size]
              /\ lv_pos' = lv_pos + COMMON_HEADER_SIZE + PAYLOAD_HEADER_SIZE
         ELSE IF f.payload_type = JPEG_DATA /\ body_end > total
         THEN Backoff /\ lv_pos' = total
         ELSE IF f.payload_type = FRAME_DATA /\ body_end > total
         THEN Fatal("struct.error") /\ lv_pos' = total /\ lastSize' = lastSize
         ELSE /\ lastSize' = [frame |-> k, size |-> size]
              /\ delivered' =
                     IF f.payload_type = JPEG_DATA
                     THEN Append(delivered, [frame |-> k, len |-> BodyRead(f)])
                     ELSE delivered
              /\ lv_pos' = IF body_end + PaddingRead(f) > total THEN total
                           ELSE body_end + PaddingRead(f)
              /\ _cnt' = cnt_after_frame(f, _cnt)
              /\ fails' = 0
              /\ UNCHANGED <<lv_stream, lpc, done, slept, lv_err>>

\* One round of the loop of _grab_liveview.  broken: the connection breaks
\* before the common header is complete (IncompleteRead).  At the end of
\* the stream read(8) returns nothing and struct.unpack raises struct.error;
\* a JPEG body cut short by the end of the stream is a ValueError, a
\* frame-info record cut short a struct.error.  The pacing sleep in front
\* of each frame changes no state.
GrabFrame(broken) ==
    /\ lpc = "frame"
    /\ ~done
    /\ UNCHANGED <<live, rpc, ext, active_device, switch, disc, conns>>
    /\ GrabBody(broken)

\* exit(): the server asks the thread to end
Exit ==
    /\ ~done
    /\ lpc \notin {"dead", "stopped"}
    /\ done' = TRUE
    /\ UNCHANGED <<live, rpc, ext, active_device, switch, disc, lv_stream, lpc, lv_pos,
                   _cnt, conns, delivered, slept, fails, lastSize, lv_err>>

\* while not self.done, in run and in _grab_liveview
Stop ==
    /\ done
    /\ lpc \in {"connect", "frame"}
    /\ lpc' = "stopped"
    /\ UNCHANGED <<live, rpc, ext, active_device, switch, disc, lv_stream, lv_pos,
                   _cnt, done, conns, delivered, slept, fails, lastSize, lv_err>>

\* the server without device and without client
InitQuiet ==
    /\ enabled = InitEnabled
    /\ queues = InitQueues
    /\ thread_map = [c \in Threads |-> -1]
    /\ act_threads = 0
    /\ pc = [c \in Threads |-> "idle"]
    /\ gone = [c \in Threads |-> FALSE]
    /\ hdrbuf = [c \in Threads |-> <<>>]
    /\ wire = [c \in Threads |-> <<>>]
    /\ active_device = NoDevice
    /\ status = "None"
    /\ camera = "lv_on"
    /\ frameCnt = 0
    /\ stamp = [c \in Threads |-> 0]
    /\ recv = [c \in Threads |-> 0]
    /\ intact = [c \in Threads |-> FALSE]
    /\ lidx = [c \in Threads |-> 0]
    /\ ctx = [c \in Threads |-> "none"]
    /\ ppc = "wait"
    /\ pslot = 0
    /\ ep_id = [e \in EndPoints |-> 1]
    /\ sent = <<>>
    /\ call = NoCall
    /\ reply = NoReply

InitStream ==
    /\ InitQuiet
    /\ InitExt
    /\ InitSwitch
    /\ InitDisc
    /\ lv_stream \in Streams
    /\ lpc = "connect"
    /\ lv_pos = 0
    /\ _cnt = 0
    /\ done = FALSE
    /\ conns = 0
    /\ delivered = <<>>
    /\ slept = 0
    /\ fails = 0
    /\ lastSize = NoSize
    /\ lv_err = "none"

NextStream ==
    \/ \E outcome \in {"ok", "URLError", "HTTPError"} : Connect(outcome)
    \/ \E broken \in BOOLEAN : GrabFrame(broken)
    \/ Exit
    \/ Stop

SpecStream == InitStream /\ [][NextStream]_vars

\* the liveview task on streams with frames the parser has to reject: a
\* start byte that is not 0xFF, a JPEG payload header with its flag set
BadStart == [JpegFrame(1, 0) EXCEPT !.start_byte = 0]
BadFlag == [JpegFrame(1, 0) EXCEPT !.flag = 1]

RejectStreams ==
    UNION {[1..n -> {JpegFrame(1, 0), InfoFrame(1, 0), BadStart, BadFlag}] :
            n \in 1..MaxStreamFrames}

InitReject ==
    /\ InitQuiet
    /\ InitExt
    /\ InitSwitch
    /\ InitDisc
    /\ lv_stream \in RejectStreams
    /\ lpc = "connect"
    /\ lv_pos = 0
    /\ _cnt = 0
    /\ done = FALSE
    /\ conns = 0
    /\ delivered = <<>>
    /\ slept = 0
    /\ fails = 0
    /\ lastSize = NoSize
    /\ lv_err = "none"

SpecReject == InitReject /\ [][NextStream]_vars

\* ------------------------------------------- the liveview task and exit()
\* The done flag is read by the two loop tests only (lines 163 and 187);
\* exit() may set it between a test and the statements behind it.

\* variant of loop_continues: the loop of _grab_liveview runs on
loop_continues_always(d) == TRUE

\* `while not self.done` of _grab_liveview
loop_continues(d) == ~d

\* run: `while not self.done`; the time.sleep of _backoff in front of it
\* has returned
ERunTest ==
    /\ lpc = "connect"
    /\ ~tested
    /\ IF done
       THEN lpc' = "stopped" /\ UNCHANGED tested
       ELSE conns < MaxConns /\ tested' = TRUE /\ UNCHANGED lpc
    /\ UNCHANGED <<lv_stream, lv_pos, _cnt, done, conns, delivered, slept, fails,
                   lastSize, lv_err, late>>
    /\ UNCHANGED <<live, rpc, active_device, switch, disc, build, dcache, filev, swapv, solo>>

\* _grab_liveview: urlopen(self.lv_url), whatever done is by now
EOpen(outcome) ==
    /\ lpc = "connect"
    /\ tested
    /\ Open(outcome)
    /\ tested' = FALSE
    /\ UNCHANGED late
    /\ UNCHANGED <<live, rpc, active_device, switch, disc, build, dcache, filev, swapv, solo>>

\* _grab_liveview: `while not self.done`; leaving the loop returns to the
\* test of run
ELoopTest ==
    /\ lpc = "frame"
    /\ ~tested
    /\ IF loop_continues(done)
       THEN tested' = TRUE /\ UNCHANGED lpc
       ELSE lpc' = "connect" /\ UNCHANGED tested
    /\ UNCHANGED <<lv_stream, lv_pos, _cnt, done, conns, delivered, slept, fails,
                   lastSize, lv_err, late>>
    /\ UNCHANGED <<live, rpc, active_device, switch, disc, build, dcache, filev, swapv, solo>>

\* _grab_liveview: the round behind the test; a round that ends without
\* an exception has handed its frame to a callback
EFrame(broken) ==
    /\ lpc = "frame"
    /\ tested
    /\ GrabBody(broken)
    /\ tested' = FALSE
    /\ late' = IF done /\ lpc' = "frame" THEN late + 1 ELSE late
    /\ UNCHANGED conns
    /\ UNCHANGED <<live, rpc, active_device, switch, disc, build, dcache, filev, swapv, solo>>

\* exit()
EExit ==
    /\ ~done
    /\ lpc \notin {"dead", "stopped"}
    /\ done' = TRUE
    /\ UNCHANGED <<lv_stream, lpc, lv_pos, _cnt, conns, delivered, slept, fails,
                   lastSize, lv_err, late, tested>>
    /\ UNCHANGED <<live, rpc, active_device, switch, disc, build, dcache, filev, swapv, solo>>

\* the streams of SpecExit: a JPEG frame, a frame-info frame and a JPEG
\* frame over the size limit
ExitStreams ==
    UNION {[1..n -> {JpegFrame(1, 0), InfoFrame(1, 0), JpegFrame(MAX_JPEG_SIZE + 1, 0)}] :
            n \in 1..MaxStreamFrames}

InitExit ==
    /\ InitQuiet
    /\ InitExt
    /\ InitSwitch
    /\ InitDisc
    /\ lv_stream \in ExitStreams
    /\ lpc = "connect"
    /\ lv_pos = 0
    /\ _cnt = 0
    /\ done = FALSE
    /\ conns = 0
    /\ delivered = <<>>
    /\ slept = 0
    /\ fails = 0
    /\ lastSize = NoSize
    /\ lv_err = "none"

\* the steps of the task
ETask ==
    \/ ERunTest
    \/ \E outcome \in {"ok", "URLError", "HTTPError"} : EOpen(outcome)
    \/ ELoopTest
    \/ \E broken \in BOOLEAN : EFrame(broken)

NextExit ==
    \/ ERunTest
    \/ \E outcome \in {"ok", "URLError", "HTTPError"} : EOpen(outcome)
    \/ ELoopTest
    \/ \E broken \in BOOLEAN : EFrame(broken)
    \/ EExit

\* the thread is scheduled: a read or a sleep it waits in returns
SpecExit == InitExit /\ [][NextExit]_vars /\ WF_vars(ETask)

\* ------------------------------------------------------- SonyEndPoint.next_id

\* the variables next_id leaves alone
id_rest == <<live, active_device, rpc, switch, lvt, disc, build, dcache, filev, swapv,
             late, tested, argv, awv>>

\* the calls of next_id begun so far
begun == Len(issued) + Cardinality({t \in IdThreads : npc[t] # "idle"})

\* request: `id = id()`, and `ret = self.id` of next_id
IdRet(t) ==
    /\ npc[t] = "idle"
    /\ begun < MaxIds
    /\ nloc' = [nloc EXCEPT ![t].ret = self_id]
    /\ npc' = [npc EXCEPT ![t] = "load"]
    /\ UNCHANGED <<self_id, issued>>
    /\ UNCHANGED id_rest

\* the read of self.id in `self.id % self.ID_MAX + 1`
IdLoad(t) ==
    /\ npc[t] = "load"
    /\ nloc' = [nloc EXCEPT ![t].tmp = self_id]
    /\ npc' = [npc EXCEPT ![t] = "store"]
    /\ UNCHANGED <<self_id, issued>>
    /\ UNCHANGED id_rest

\* the assignment to self.id, and `return ret`
IdStore(t) ==
    /\ npc[t] = "store"
    /\ self_id' = next_id(nloc[t].tmp)
    /\ issued' = Append(issued, nloc[t].ret)
    /\ npc' = [npc EXCEPT ![t] = "idle"]
    /\ UNCHANGED nloc
    /\ UNCHANGED id_rest

\* handler threads of the ThreadingHTTPServer in _method on one endpoint,
\* the counter one call short of its largest value or at its first
InitIdCalls ==
    /\ InitQuiet
    /\ InitSwitch /\ InitLvt /\ InitDisc
    /\ InitBuild /\ InitCache /\ InitFile /\ InitSwap
    /\ late = 0
    /\ tested = FALSE
    /\ InitArgs /\ InitAw
    /\ self_id \in {1, ID_MAX - 1}
    /\ npc = [t \in IdThreads |-> "idle"]
    /\ nloc = [t \in IdThreads |-> [ret |-> 0, tmp |-> 0]]
    /\ issued = <<>>

NextIds ==
    \/ \E t \in IdThreads : IdRet(t)
    \/ \E t \in IdThreads : IdLoad(t)
    \/ \E t \in IdThreads : IdStore(t)

SpecIds == InitIdCalls /\ [][NextIds]_vars

\* ----------------------------------------------------------- SSDPDiscoverer
\* A reply is the status line and the lines behind it; a line is what
\* line.split(b': ', 1) makes of it: <<key, value>>, or one piece only
\* when the line holds no ": ".  A dict is the sequence of its items in
\* insertion order.

NumSockets == 2           \* sockets (interfaces) of the discoverer

Timeout == [kind |-> "timeout", status |-> "", lines |-> <<>>]
OsError == [kind |-> "OSError", status |-> "", lines |-> <<>>]
Reply(first, rest) == [kind |-> "data", status |-> first, lines |-> rest]

\* what a socket may meet: no reply in time, an OS error, or a reply: two
\* replies with the same headers in different order and case, one of
\* another device, one with a line without separator, one that is no
\* 200 OK, and an empty datagram
SockOutcomes ==
    {Timeout, OsError,
     Reply("HTTP/1.1 200 OK", <<<<"LOCATION", "http://a">>, <<"ST", "sony">>>>),
     Reply("HTTP/1.1 200 OK", <<<<"ST", "sony">>, <<"Location", "http://a">>>>),
     Reply("HTTP/1.1 200 OK", <<<<"LOCATION", "http://b">>, <<"ST", "sony">>>>),
     Reply("HTTP/1.1 200 OK", <<<<"garbage">>>>),
     Reply("HTTP/1.1 404 Not Found", <<<<"ST", "sony">>>>),
     Reply("", <<>>)}

\* key.lower()
lower(k) ==
    CASE k = "LOCATION" -> "location"
      [] k = "Location" -> "location"
      [] k = "ST" -> "st"
      [] OTHER -> k

\* d[k] = v on a dict kept as the sequence of its items
DictSet(d, k, v) ==
    IF \E i \in 1..Len(d) : d[i][1] = k
    THEN [i \in 1..Len(d) |-> IF d[i][1] = k THEN <<k, v>> ELSE d[i]]
    ELSE Append(d, <<k, v>>)

\* parse_ssdp_response: the test of the first line never fires (a split
\* never returns an empty list); every line behind it goes into headers
RECURSIVE ParseLines(_, _, _)
ParseLines(lines, i, headers) ==
    IF i > Len(lines) THEN headers
    ELSE ParseLines(lines, i + 1, DictSet(headers, lower(lines[i][1]), lines[i][2]))

\* parse_ssdp_response raises ValueError: a line does not unpack into
\* key and value
ParseRaises(data) == \E i \in 1..Len(data.lines) : Len(data.lines[i]) # 2

parse_ssdp_response(data) == ParseLines(data.lines, 1, <<>>)

\* the order of sorted() on the header names in use
Rank(k) == CASE k = "location" -> 1 [] k = "st" -> 2 [] OTHER -> 3

\* variant of service_key without the sort
service_key_unsorted(srv) == srv

\* query: key = tuple(sorted(srv.items()))
service_key(srv) == SortSeq(srv, LAMBDA a, b : Rank(a[1]) < Rank(b[1]))

\* query: services[key] = srv
ServicesSet(svc, key, srv) ==
    IF \E i \in 1..Len(svc) : svc[i].key = key
    THEN [i \in 1..Len(svc) |->
            IF svc[i].key = key THEN [key |-> key, srv |-> srv] ELSE svc[i]]
    ELSE Append(svc, [key |-> key, srv |-> srv])

\* query up to its loop
QueryStart ==
    /\ qstate = "idle"
    /\ qstate' = "running"
    /\ qi' = 1
    /\ services' = <<>>
    /\ UNCHANGED <<live, rpc, ext, active_device, switch, lvt, socks, received>>

\* query, one round of the loop over the sockets: sendto, recv,
\* parse_ssdp_response, services[key] = srv, and the three except clauses
QuerySocket ==
    /\ qstate = "running"
    /\ qi <= Len(socks)
    /\ LET o == socks[qi] IN
       IF o.kind \in {"OSError", "timeout"}
       THEN /\ qi' = qi + 1
            /\ UNCHANGED <<services, qstate, received>>
       ELSE /\ received' = Append(received, o)
            /\ IF ParseRaises(o)
               THEN /\ qstate' = "raised"
                    /\ UNCHANGED <<qi, services>>
               ELSE /\ services' =
                          ServicesSet(services,
                                      service_key(parse_ssdp_response(o)),
                                      parse_ssdp_response(o))
                    /\ qi' = qi + 1
                    /\ qstate' = qstate
    /\ UNCHANGED <<live, rpc, ext, active_device, switch, lvt, socks>>

\* return services.values()
QueryReturn ==
    /\ qstate = "running"
    /\ qi > Len(socks)
    /\ qstate' = "returned"
    /\ UNCHANGED <<live, rpc, ext, active_device, switch, lvt, socks, qi, services,
                   received>>

InitQuery ==
    /\ InitQuiet
    /\ InitExt
    /\ InitSwitch
    /\ InitLvt
    /\ socks \in [1..NumSockets -> SockOutcomes]
    /\ qi = 0
    /\ services = <<>>
    /\ qstate = "idle"
    /\ received = <<>>

NextQuery ==
    \/ QueryStart
    \/ QuerySocket
    \/ QueryReturn

SpecQuery == InitQuery /\ [][NextQuery]_vars

\* ------------------------------------------- SonyImagingDevice._build_endpoints

MaxServices == 2          \* services in the device description of the proxy
MaxEps == 2               \* entries of the getServiceProtocols result

\* the variables the construction of a proxy leaves alone
quiet == <<live, active_device, rpc, switch, lvt, disc>>

EpNames == {"guide", "camera", "avContent"}
Urls == {"u1", "u2"}

\* ScalarWebService(type, url)
ScalarWebService(t, u) == [type |-> t, url |-> u]

\* webapi.Services as parse_upnp_device_definition can leave it
Descriptions ==
    UNION {[1..n -> {ScalarWebService(t, u) : t \in EpNames, u \in Urls}] : n \in 0..MaxServices}

\* eps["results"]: one entry per endpoint, ep[0] is its name
Protocols == UNION {[1..n -> EpNames] : n \in 0..MaxEps}

\* what the device does with guide.getServiceProtocols
GuideAnswers == {"results", "error", "raise"}

\* `for srv in self.webapi.Services: if srv.type == ep_name: found = True`
found(srvs, ep_name) == \E i \in DOMAIN srvs : srvs[i].type = ep_name

\* collections.Counter over the urls: <<url, count>> in order of first
\* occurrence
RECURSIVE Counter(_)
Counter(srvs) ==
    IF srvs = <<>> THEN <<>>
    ELSE LET c == Counter(SubSeq(srvs, 1, Len(srvs) - 1))
             u == srvs[Len(srvs)].url
         IN  IF \E i \in DOMAIN c : c[i][1] = u
             THEN [i \in DOMAIN c |-> IF c[i][1] = u THEN <<u, c[i][2] + 1>> ELSE c[i]]
             ELSE Append(c, <<u, 1>>)

\* url_vote.most_common(1)[0][0]: the highest count, the earliest on a tie
most_common(c) ==
    c[CHOOSE i \in DOMAIN c :
        /\ \A j \in DOMAIN c : c[j][2] <= c[i][2]
        /\ \A j \in 1..(i - 1) : c[j][2] < c[i][2]][1]

\* variant of add_service that trusts the device description
add_service_never(srvs, vote, ep_name) == srvs

\* `if not found: ... self.webapi.Services.append(srv)`
add_service(srvs, vote, ep_name) ==
    IF found(srvs, ep_name) THEN srvs
    ELSE Append(srvs, ScalarWebService(ep_name, most_common(vote)))

\* _default_endpoints reads methods["results"] of guide, system, camera and
\* avContent: a KeyError unless request finds a service for each of them
DefaultEndPoints == {"guide", "system", "camera", "avContent"}
default_can_build(srvs) == \A n \in DefaultEndPoints : found(srvs, n)

\* self.request("guide", method="getServiceProtocols", ...) and the branch on
\* "results": request answers with an error dictionary when no service is
\* of type guide, and lets some exceptions of urlopen escape
BuildRequest ==
    /\ bpc = "request"
    /\ \E a \in GuideAnswers, r \in Protocols :
        IF found(webapi, "guide") /\ a = "results"
        THEN /\ eps' = r
             /\ url_vote' = Counter(webapi)
             /\ bpc' = "loop"
        ELSE /\ r = <<>>
             /\ IF found(webapi, "guide") /\ a = "raise"
                THEN bpc' = "failed"
                ELSE bpc' \in IF default_can_build(webapi) THEN {"built", "failed"}
                              ELSE {"failed"}
             /\ UNCHANGED <<eps, url_vote>>
    /\ UNCHANGED <<webapi, endpoints>>
    /\ UNCHANGED <<quiet, dcache, filev, swapv, more>>

\* one round of `for ep in eps["results"]`
BuildEndpoint ==
    /\ bpc = "loop"
    /\ eps # <<>>
    /\ endpoints' = endpoints \cup {Head(eps)}
    /\ IF ~found(webapi, Head(eps)) /\ url_vote = <<>>
       THEN bpc' = "failed" /\ UNCHANGED webapi
       ELSE /\ webapi' = add_service(webapi, url_vote, Head(eps))
            /\ UNCHANGED bpc
    /\ eps' = Tail(eps)
    /\ UNCHANGED url_vote
    /\ UNCHANGED <<quiet, dcache, filev, swapv, more>>

\* the two loops that populate the endpoints with methods and parameters:
\* they call request, which may raise, and touch neither the keys of
\* self.endpoints nor webapi.Services
BuildMethods ==
    /\ bpc = "loop"
    /\ eps = <<>>
    /\ bpc' \in {"built", "failed"}
    /\ UNCHANGED <<webapi, endpoints, eps, url_vote>>
    /\ UNCHANGED <<quiet, dcache, filev, swapv, more>>

InitBuilding ==
    /\ InitQuiet
    /\ InitCache
    /\ InitFile
    /\ InitSwap /\ InitMore
    /\ InitSwitch /\ InitLvt /\ InitDisc
    /\ webapi \in Descriptions
    /\ endpoints = {}
    /\ eps = <<>>
    /\ url_vote = <<>>
    /\ bpc = "request"

NextBuild ==
    \/ BuildRequest
    \/ BuildEndpoint
    \/ BuildMethods

SpecBuild == InitBuilding /\ [][NextBuild]_vars

\* ------------------------------------------ SonyImagingDevice._parse_arg_spec

MaxPrms == 2              \* entries of the parameter spec of a method

VALID_TYPES == {"bool", "int", "double", "string"}

\* a[0:-1] and a.endswith("*"), for the strings in use
drop_last(a) ==
    CASE a \in {"int*", "ints"} -> "int"
      [] a = "number*" -> "number"
      [] a = "int" -> "in"
      [] a = "number" -> "numbe"
      [] OTHER -> ""
ends_star(a) == a \in {"int*", "number*"}

\* a value of a JSON object that is itself a list or a dict
Nested == "{...}"

\* an entry of prms: a text that json.loads does not take, or ("{}") a text
\* that decodes to the object with the fields given
Plain(a) == [text |-> a, fields |-> <<>>]
Object(f) == [text |-> "{}", fields |-> f]
decodes(a) == a.text = "{}"

ParamSpecs ==
    {Plain(a) : a \in {"int", "int*", "ints", "number", "number*"}}
    \cup {Object(<<<<"zoom", v>>>>) : v \in {"int", "int*", "number", "number*", Nested}}
    \cup {Object(<<<<"zoom", "int">>, <<"flip", "number">>>>), Object(<<>>)}

\* opts: nothing, or the answer of getSupported.../getAvailable...
Options == {<<>>, <<[candidate |-> <<"on", "off">>]>>}

\* the keys of args: f"arg{i}", or the key of a field
ArgKey(n) == [pos |-> n, name |-> ""]
NameKey(k) == [pos |-> -1, name |-> k]

Arg(type, options) == [type |-> type, options |-> options]

\* `v = "string" + "*" if is_star else ""`: the conditional takes the
\* whole sum as its first branch
star_type(v) == IF ends_star(v) THEN "string*" ELSE ""

\* `for k, v in spec.items()` without options, from field f on
RECURSIVE plain_fields(_, _, _)
plain_fields(st, fields, f) ==
    IF f > Len(fields) THEN st
    ELSE LET k == fields[f][1]
             v == fields[f][2]
             type == IF v \in VALID_TYPES \/ drop_last(v) \in VALID_TYPES THEN v
                     ELSE star_type(v)
         IN  plain_fields([args |-> DictSet(st.args, NameKey(k), Arg(type, <<>>)),
                           n |-> st.n + 1], fields, f + 1)

\* `for k, v in spec.items()` with options, from field f on
RECURSIVE merge_fields(_, _, _, _)
merge_fields(st, fields, f, o) ==
    IF f > Len(fields) THEN st
    ELSE merge_fields([st EXCEPT !.args = DictSet(@, NameKey(fields[f][1]),
                                                   Arg(fields[f][2], o[1].candidate))],
                      fields, f + 1, o)

\* one round of `for a in prms`
parse_round(st, a, o) ==
    LET one(type, options) ==
            [args |-> DictSet(st.args, ArgKey(st.n), Arg(type, options)), n |-> st.n + 1]
    IN  IF a.text \in VALID_TYPES \/ drop_last(a.text) \in VALID_TYPES
        THEN one(a.text, IF o # <<>> THEN o[1] ELSE <<>>)
        ELSE IF ends_star(a.text) THEN one("JSON*", <<>>)
        ELSE IF ~decodes(a) THEN one("JSON", <<>>)
        ELSE IF o = <<>>
        THEN IF \E f \in DOMAIN a.fields : a.fields[f][2] = Nested
             THEN one("JSON", <<>>)
             ELSE plain_fields(st, a.fields, 1)
        ELSE merge_fields(st, a.fields, 1, o)

\* the variables _parse_arg_spec leaves alone
arg_rest == <<quiet, build, dcache, filev, swapv, late, tested, idv, awv>>

ParseArg ==
    /\ pidx < Len(prms)
    /\ LET st == parse_round([args |-> args, n |-> argn], prms[pidx + 1], opts)
       IN  args' = st.args /\ argn' = st.n
    /\ pidx' = pidx + 1
    /\ UNCHANGED <<prms, opts>>
    /\ UNCHANGED arg_rest

InitParse ==
    /\ InitQuiet
    /\ InitSwitch /\ InitLvt /\ InitDisc
    /\ InitBuild /\ InitCache /\ InitFile /\ InitSwap
    /\ late = 0
    /\ tested = FALSE
    /\ InitIds /\ InitAw
    /\ prms \in UNION {[1..n -> ParamSpecs] : n \in 0..MaxPrms}
    /\ opts \in Options
    /\ pidx = 0
    /\ argn = 0
    /\ args = <<>>

NextArgs == ParseArg

SpecArgs == InitParse /\ [][NextArgs]_vars

\* ------------------------------------------------- get_status / await_state

MaxTries == 3             \* the largest value of tries

\* what a poll sees: a cameraStatus, or get_status raising (an answer of
\* getEvent without "result", an exception request lets through)
Statuses == {"IDLE", "ContentsTransfer", "NotReady"}
NoResult == "no result"

\* the variables await_state leaves alone
aw_rest == <<quiet, build, dcache, filev, swapv, late, tested, idv, argv>>

\* variant of in_range that runs one round more
in_range_inclusive(t, n) == t <= n

\* `for t in range(0, tries)`: there is a round t
in_range(t, n) == t < n

\* camera_state = get_status(dev); if camera_state == state: return
AwPoll(seen) ==
    /\ awpc = "poll"
    /\ in_range(att, tries)
    /\ polled' = Append(polled, seen)
    /\ awpc' = IF seen = NoResult THEN "error"
               ELSE IF seen = wanted THEN "returned"
               ELSE "sleep"
    /\ UNCHANGED <<tries, wanted, att>>
    /\ UNCHANGED aw_rest

\* time.sleep(sleep_secs), and the next value of t
AwSleep ==
    /\ awpc = "sleep"
    /\ att' = att + 1
    /\ awpc' = "poll"
    /\ UNCHANGED <<tries, wanted, polled>>
    /\ UNCHANGED aw_rest

\* raise SonyDeviceError(f"Device state not reached after {tries} attempts")
AwTimeout ==
    /\ awpc = "poll"
    /\ ~in_range(att, tries)
    /\ awpc' = "timeout"
    /\ UNCHANGED <<tries, wanted, att, polled>>
    /\ UNCHANGED aw_rest

InitAwait ==
    /\ InitQuiet
    /\ InitSwitch /\ InitLvt /\ InitDisc
    /\ InitBuild /\ InitCache /\ InitFile /\ InitSwap
    /\ late = 0
    /\ tested = FALSE
    /\ InitIds /\ InitArgs
    /\ tries \in 0..MaxTries
    /\ wanted \in {"IDLE", "ContentsTransfer"}
    /\ att = 0
    /\ awpc = "poll"
    /\ polled = <<>>

NextAwait ==
    \/ \E seen \in Statuses \cup {NoResult} : AwPoll(seen)
    \/ AwSleep
    \/ AwTimeout

SpecAwait == InitAwait /\ [][NextAwait]_vars /\ WF_vars(NextAwait)

\* -------------------------------------------------------------- DeviceCache

MaxReplies == 2           \* discovery records one query returns
MaxCacheCalls == 2        \* scan_devices / find_device calls in SpecCache

SONY == "UPnP/1.0 SonyImagingDevice/1.0"
Locations == {"http://a", "http://b"}

\* the locations whose device may fail to answer while a proxy is constructed
Flaky == {"http://b"}

\* the records ssdp.query may return: one device with its headers in two
\* orders, a second device, a device that is no Sony camera, and a record
\* without location
DiscoveryRecords ==
    {<<<<"location", "http://a">>, <<"server", SONY>>>>,
     <<<<"server", SONY>>, <<"location", "http://a">>>>,
     <<<<"location", "http://b">>, <<"server", SONY>>>>,
     <<<<"location", "http://c">>, <<"server", "Linux UPnP/1.0">>>>,
     <<<<"server", SONY>>>>}

\* what one query returns: query keeps one record per key
Replies ==
    {r \in UNION {[1..n -> DiscoveryRecords] : n \in 0..MaxReplies} :
        \A i, j \in DOMAIN r : i # j => service_key(r[i]) # service_key(r[j])}

Keys == {service_key(r) : r \in DiscoveryRecords}

\* the device_name the description XML of a location gives
DeviceName(loc) == IF loc = "http://a" THEN "DSC-A" ELSE "ILCE-B"

\* a proxy: the object, its location and its device_name
Proxy(n, loc) == [obj |-> n, location |-> loc, device_name |-> DeviceName(loc)]

\* what the file on disk can be: absent, not readable, not a pickle, empty,
\* of an unknown pickle protocol, a pickle of classes that no longer
\* exist, or the mapping an earlier run wrote
Stores ==
    {[kind |-> k, mapping |-> <<>>] :
        k \in {"missing", "unreadable", "garbage", "empty", "protocol", "stale", "valid"}}
    \cup {[kind |-> "valid",
           mapping |-> <<[key |-> service_key(<<<<"location", "http://a">>, <<"server", SONY>>>>),
                          dev |-> Proxy(0, "http://a")]>>]}

\* open(self.cache_file, "rb") and pickle.load(f): the exception raised
load(st) ==
    CASE st.kind \in {"missing", "unreadable"} -> "OSError"
      [] st.kind = "garbage" -> "PickleError"
      [] st.kind = "empty" -> "EOFError"
      [] st.kind = "protocol" -> "ValueError"
      [] st.kind = "stale" -> "ImportError"
      [] OTHER -> "none"

\* except (OSError, pickle.PickleError)
caught(e) == e \in {"OSError", "PickleError"}

\* rsp.get(k, "") and `k in rsp` on a dict kept as the sequence of its items
DictGet(d, k) ==
    IF \E i \in DOMAIN d : d[i][1] = k
    THEN d[CHOOSE i \in DOMAIN d : d[i][1] = k][2]
    ELSE ""
HasKey(d, k) == \E i \in DOMAIN d : d[i][1] = k

\* "SonyImagingDevice" in rsp.get("server", ""), for the servers in use
is_sony(server) == server = SONY

\* name.lower() in d.device_name.lower(), for the names in use
FindNames == {"", "dsc", "ILCE"}

\* variant of name_in that compares the names as they are written
name_in_cased(name, device_name) ==
    \/ name = ""
    \/ name = "ILCE" /\ device_name = "ILCE-B"

name_in(name, device_name) ==
    \/ name = ""
    \/ name = "dsc" /\ device_name = "DSC-A"
    \/ name = "ILCE" /\ device_name = "ILCE-B"

\* variant of in_cache that never finds the key
in_cache_never(c, k) == FALSE

\* add: `key not in self.cache`, negated
in_cache(c, k) == \E i \in DOMAIN c : c[i].key = k

\* self.cache[key]
cache_get(c, k) == c[CHOOSE i \in DOMAIN c : c[i].key = k].dev

\* self.cache[key] = dev
cache_set(c, k, d) ==
    IF \E i \in DOMAIN c : c[i].key = k
    THEN [i \in DOMAIN c |-> IF c[i].key = k THEN [key |-> k, dev |-> d] ELSE c[i]]
    ELSE Append(c, [key |-> k, dev |-> d])

\* DeviceCache.add on the state st of a call; the constructor of the proxy
\* fetches the description XML and raises for the locations in bad
add(st, rsp, bad) ==
    LET k == service_key(rsp)
        loc == DictGet(rsp, "location")
    IN  IF in_cache(st.cache, k)
        THEN [st EXCEPT !.out = cache_get(st.cache, k), !.hits = @ + 1]
        ELSE IF loc \in bad
        THEN [st EXCEPT !.fetches[k] = @ + 1, !.raised = TRUE]
        ELSE [st EXCEPT !.cache = cache_set(@, k, Proxy(st.objs + 1, loc)),
                        !.objs = @ + 1,
                        !.fetches[k] = @ + 1,
                        !.made[k] = @ + 1,
                        !.out = Proxy(st.objs + 1, loc)]

\* scan_devices: the loop over ssdp.query(), up to an exception of add
RECURSIVE scan_loop(_, _, _, _)
scan_loop(st, replies, i, bad) ==
    IF i > Len(replies) \/ st.raised THEN st
    ELSE LET rsp == replies[i]
         IN  IF ~is_sony(DictGet(rsp, "server")) \/ ~HasKey(rsp, "location")
             THEN scan_loop(st, replies, i + 1, bad)
             ELSE LET s2 == add(st, rsp, bad)
                  IN  scan_loop(IF s2.raised THEN s2
                                ELSE [s2 EXCEPT !.devices =
                                        DictSet(@, DictGet(rsp, "location"), s2.out)],
                                replies, i + 1, bad)

\* the state a call starts from
call_state ==
    [cache |-> cache, objs |-> objs, fetches |-> fetches, made |-> made,
     devices |-> <<>>, out |-> Proxy(0, ""), hits |-> 0, raised |-> FALSE]

\* list(devices.values())
values(d) == [i \in DOMAIN d |-> d[i][2]]

\* DeviceCache.__init__
CacheInit ==
    /\ cache_state = "new"
    /\ IF load(store) = "none"
       THEN cache' = store.mapping /\ cache_state' = "ready"
       ELSE IF caught(load(store))
       THEN cache' = <<>> /\ cache_state' = "ready"
       ELSE cache' = <<>> /\ cache_state' = "raised"
    /\ UNCHANGED <<store, objs, fetches, made, ret, calls>>
    /\ UNCHANGED <<quiet, build, filev, swapv, more>>

\* DeviceCache.scan_devices
Scan ==
    /\ cache_state = "ready"
    /\ calls < MaxCacheCalls
    /\ \E r \in Replies, bad \in SUBSET Flaky :
        LET st == scan_loop(call_state, r, 1, bad)
        IN  /\ cache' = st.cache
            /\ objs' = st.objs
            /\ fetches' = st.fetches
            /\ made' = st.made
            /\ ret' = [op |-> "scan", name |-> "", replies |-> r,
                       result |-> IF st.raised THEN <<>> ELSE values(st.devices),
                       hits |-> st.hits, raised |-> st.raised]
    /\ calls' = calls + 1
    /\ UNCHANGED <<store, cache_state>>
    /\ UNCHANGED <<quiet, build, filev, swapv, more>>

\* DeviceCache.find_device; the result is a list of one proxy, empty for None
Find ==
    /\ cache_state = "ready"
    /\ calls < MaxCacheCalls
    /\ \E name \in FindNames, r \in Replies, bad \in SUBSET Flaky :
        LET st == IF cache = <<>> THEN scan_loop(call_state, r, 1, bad) ELSE call_state
            hits == {i \in DOMAIN st.cache : name_in(name, st.cache[i].dev.device_name)}
            first == CHOOSE i \in hits : \A j \in hits : i <= j
        IN  /\ cache # <<>> => r = <<>> /\ bad = {}
            /\ cache' = st.cache
            /\ objs' = st.objs
            /\ fetches' = st.fetches
            /\ made' = st.made
            /\ ret' = [op |-> "find", name |-> name, replies |-> r,
                       result |-> IF st.raised THEN <<>>
                                  ELSE IF cache = <<>>
                                  THEN (IF st.cache = <<>> THEN <<>> ELSE <<st.cache[1].dev>>)
                                  ELSE IF hits = {} THEN <<>> ELSE <<st.cache[first].dev>>,
                       hits |-> st.hits, raised |-> st.raised]
    /\ calls' = calls + 1
    /\ UNCHANGED <<store, cache_state>>
    /\ UNCHANGED <<quiet, build, filev, swapv, more>>

InitCaching ==
    /\ InitQuiet
    /\ InitSwitch /\ InitLvt /\ InitDisc
    /\ InitBuild
    /\ InitFile
    /\ InitSwap /\ InitMore
    /\ store \in Stores
    /\ cache_state = "new"
    /\ cache = <<>>
    /\ objs = 0
    /\ fetches = [k \in Keys |-> 0]
    /\ made = [k \in Keys |-> 0]
    /\ ret = NoRet
    /\ calls = 0

NextCache ==
    \/ CacheInit
    \/ Scan
    \/ Find

SpecCache == InitCaching /\ [][NextCache]_vars

\* ------------------------------------ SonyRequestHandler._forward_device_file

MaxFiles == 2             \* files on the device

Uris == {"f1", "f2"}
PathNames == {"f1", "f2", "f3"}

\* a file descriptor of the device: its uri, its kind, and whether urlopen
\* of its original url succeeds
FileDesc(u, up) ==
    [uri |-> u, up |-> up,
     contentKind |-> IF u = "f1" THEN "still" ELSE "movie_mp4",
     stillObject |-> "jpeg"]

Media == UNION {[1..n -> {FileDesc(u, up) : u \in Uris, up \in BOOLEAN}] : n \in 0..MaxFiles}

\* _mime_type
_mime_type(fil) ==
    IF fil.contentKind = "still"
    THEN CASE fil.stillObject = "jpeg" -> "image/jpeg"
           [] fil.stillObject = "raw" -> "image/x-sony-arw"
           [] OTHER -> "None"
    ELSE "video/mp4"

\* _forward_device_file past its loop: the method returns
no_match(st) == st

\* the loop of _forward_device_file over the files of the walk: buf is the
\* headers buffer, out what went to the socket; a match that opens is
\* written and the loop goes on, a match that does not open buffers a 503
\* and returns
RECURSIVE forward_loop(_, _, _, _)
forward_loop(files, i, name, st) ==
    IF i > Len(files) THEN no_match(st)
    ELSE IF files[i].uri # name THEN forward_loop(files, i + 1, name, st)
    ELSE IF ~files[i].up
    THEN [st EXCEPT !.buf = send_response(@, SERVICE_UNAVAILABLE)]
    ELSE forward_loop(files, i + 1, name,
            [buf |-> <<>>,
             out |-> st.out
                     \o end_headers(send_header(send_response(st.buf, OK),
                                                "Content-type", _mime_type(files[i])))
                     \o <<<<"data", files[i].uri>>>>])

\* do_GET -> _forward_device_file for a path /image:content/<name>
ForwardDeviceFile(c) ==
    /\ pc[c] = "idle"
    /\ \E name \in PathNames :
        /\ req' = [req EXCEPT ![c] = name]
        /\ LET st == IF active_device = NoDevice
                     THEN [buf |-> send_response(<<>>, SERVICE_UNAVAILABLE), out |-> <<>>]
                     ELSE forward_loop(media, 1, name, [buf |-> <<>>, out |-> <<>>])
           IN  /\ hdrbuf' = [hdrbuf EXCEPT ![c] = st.buf]
               /\ wire' = [wire EXCEPT ![c] = st.out]
    /\ pc' = [pc EXCEPT ![c] = "closed"]
    /\ UNCHANGED <<enabled, queues, thread_map, act_threads, gone,
                   active_device, status, camera, frameCnt, stamp, recv, intact, conc>>
    /\ UNCHANGED <<rpc, switch, lvt, disc, build, dcache, swapv, more, media>>

InitForward ==
    /\ enabled = InitEnabled
    /\ queues = InitQueues
    /\ thread_map = [c \in Threads |-> -1]
    /\ act_threads = 0
    /\ pc = [c \in Threads |-> "idle"]
    /\ gone = [c \in Threads |-> FALSE]
    /\ hdrbuf = [c \in Threads |-> <<>>]
    /\ wire = [c \in Threads |-> <<>>]
    /\ active_device \in {NoDevice} \cup Devices
    /\ status = "None"
    /\ camera = "lv_on"
    /\ frameCnt = 0
    /\ stamp = [c \in Threads |-> 0]
    /\ recv = [c \in Threads |-> 0]
    /\ intact = [c \in Threads |-> FALSE]
    /\ lidx = [c \in Threads |-> 0]
    /\ ctx = [c \in Threads |-> "none"]
    /\ ppc = "wait"
    /\ pslot = 0
    /\ ep_id = [e \in EndPoints |-> 1]
    /\ sent = <<>>
    /\ call = NoCall
    /\ reply = NoReply
    /\ InitSwitch /\ InitLvt /\ InitDisc
    /\ InitBuild /\ InitCache /\ InitSwap /\ InitMore
    /\ media \in Media
    /\ req = [c \in Threads |-> ""]

NextFile ==
    \/ \E c \in Threads : ForwardDeviceFile(c)
    \/ \E c \in Threads : Finish(c)

SpecFile == InitForward /\ [][NextFile]_vars

\* ------------------------------------------- concurrent device switching
\* ThreadingHTTPServer runs every POST /server in a thread of its own and
\* _change_device takes no lock, so two workers run it statement by
\* statement.  wpc values:
\*   set (line 333)  status (line 334)  start (lines 288-292)
\*   test (line 300)  exit (line 301)  join (line 302)
\*   new (line 295)  run (line 296)

MaxSwaps == 3             \* changeDevice requests in SpecSwap

\* a LiveviewStreamThread: not started / alive / dead, and its done flag
NewTask == [state |-> "new", done |-> FALSE]

\* the tasks whose thread is alive
AliveTasks == {t \in DOMAIN task : task[t].state = "alive"}

\* the variables of the server a worker of SpecSwap leaves alone
still == <<quiet, build, dcache, filev, more>>

\* _change_device up to its test (lines 320-331)
WChange(w, name) ==
    /\ wpc[w] = "idle"
    /\ swaps < MaxSwaps
    /\ swaps' = swaps + 1
    /\ IF should_change(find_device(name), active_device)
       THEN /\ wpc' = [wpc EXCEPT ![w] = "set"]
            /\ wnew' = [wnew EXCEPT ![w] = find_device(name)]
       ELSE UNCHANGED <<wpc, wnew>>
    /\ UNCHANGED <<handle, task>>
    /\ UNCHANGED still

\* self.active_device = new_dev
WSet(w) ==
    /\ wpc[w] = "set"
    /\ active_device' = wnew[w]
    /\ wpc' = [wpc EXCEPT ![w] = "status"]
    /\ UNCHANGED <<wnew, handle, task, swaps>>
    /\ UNCHANGED <<live, rpc, switch, lvt, disc, build, dcache, filev, more>>

\* self._update_status()
WStatus(w) ==
    /\ wpc[w] = "status"
    /\ status' = status_after(active_device, camera, status)
    /\ wpc' = [wpc EXCEPT ![w] = "start"]
    /\ UNCHANGED <<wnew, handle, task, swaps>>
    /\ UNCHANGED <<enabled, queues, thread_map, act_threads, pc, gone, hdrbuf, wire,
                   camera, frameCnt, stamp, recv, intact, conc>>
    /\ UNCHANGED <<active_device, rpc, switch, lvt, disc, build, dcache, filev, more>>

\* _start_liveview: camera.startLiveview() of the active device; without a
\* result nothing else happens
WStart(w, answer) ==
    /\ wpc[w] = "start"
    /\ wpc' = [wpc EXCEPT ![w] =
                 IF active_device # NoDevice /\ answer = "result" THEN "test" ELSE "idle"]
    /\ UNCHANGED <<wnew, handle, task, swaps>>
    /\ UNCHANGED still

\* _stop_liveview: `if self.active_device and self.liveview`
WStopTest(w) ==
    /\ wpc[w] = "test"
    /\ wpc' = [wpc EXCEPT ![w] =
                 IF active_device # NoDevice /\ handle # 0 THEN "exit" ELSE "new"]
    /\ UNCHANGED <<wnew, handle, task, swaps>>
    /\ UNCHANGED still

\* self.liveview.exit()
WExit(w) ==
    /\ wpc[w] = "exit"
    /\ task' = [task EXCEPT ![handle].done = TRUE]
    /\ wpc' = [wpc EXCEPT ![w] = "join"]
    /\ UNCHANGED <<wnew, handle, swaps>>
    /\ UNCHANGED still

\* self.liveview.join(): waits while the thread is alive; on a thread that
\* was never started it raises RuntimeError and the request ends
WJoin(w) ==
    /\ wpc[w] = "join"
    /\ task[handle].state # "alive"
    /\ wpc' = [wpc EXCEPT ![w] = IF task[handle].state = "new" THEN "idle" ELSE "new"]
    /\ UNCHANGED <<wnew, handle, task, swaps>>
    /\ UNCHANGED still

\* self.liveview = sony_streams.LiveviewStreamThread(url, callback)
WNew(w) ==
    /\ wpc[w] = "new"
    /\ task' = Append(task, NewTask)
    /\ handle' = Len(task) + 1
    /\ wpc' = [wpc EXCEPT ![w] = "run"]
    /\ UNCHANGED <<wnew, swaps>>
    /\ UNCHANGED still

\* self.liveview.start(): a thread that was started before raises
\* RuntimeError
WRun(w) ==
    /\ wpc[w] = "run"
    /\ task' = IF task[handle].state = "new"
               THEN [task EXCEPT ![handle].state = "alive"]
               ELSE task
    /\ wpc' = [wpc EXCEPT ![w] = "idle"]
    /\ UNCHANGED <<wnew, handle, swaps>>
    /\ UNCHANGED still

\* LiveviewStreamThread.run: the loop `while not self.done` ends
TaskExit(t) ==
    /\ t \in AliveTasks
    /\ task[t].done
    /\ task' = [task EXCEPT ![t].state = "dead"]
    /\ UNCHANGED <<wpc, wnew, handle, swaps>>
    /\ UNCHANGED still

InitSwapping ==
    /\ InitQuiet
    /\ InitSwitch /\ InitLvt /\ InitDisc
    /\ InitBuild /\ InitCache /\ InitFile
    /\ InitSwap /\ InitMore

NextSwap ==
    \/ \E w \in Workers : \E name \in devices : WChange(w, name)
    \/ \E w \in Workers : WSet(w)
    \/ \E w \in Workers : WStatus(w)
    \/ \E w \in Workers : \E answer \in StartAnswers : WStart(w, answer)
    \/ \E w \in Workers : WStopTest(w)
    \/ \E w \in Workers : WExit(w)
    \/ \E w \in Workers : WJoin(w)
    \/ \E w \in Workers : WNew(w)
    \/ \E w \in Workers : WRun(w)
    \/ \E t \in DOMAIN task : TaskExit(t)

SpecSwap == InitSwapping /\ [][NextSwap]_vars

\* ------------------------------------------------------------- properties

\* The thread holds an activation: its activate succeeded and it has not
\* called deactivate since.
Holding(c) == pc[c] \in {"stream", "break"}

\* The frames a + 1 .. b in producer order
Pending(a, b) == [i \in 1..(b - a) |-> a + i]

\* The last frame that is behind the thread: the last one it dequeued, or
\* the last one added before it activated
Cursor(c) == IF recv[c] = 0 THEN stamp[c] ELSE recv[c]

AllActive == \A s \in DOMAIN enabled : enabled[s]

LowestFree ==
    CHOOSE s \in DOMAIN enabled :
        ~enabled[s] /\ \A t \in DOMAIN enabled : t < s => enabled[t]

\* C1 (as claimed): for every thread that holds an activation on a slot
\* that was not deactivated since, the frames added since the activation
\* are exactly the ones the thread dequeued followed by the ones waiting in
\* its slot, in producer order: none lost, none twice, none out of order.
C1_FanOutComplete ==
    \A c \in Threads :
        (pc[c] = "stream" /\ intact[c]) =>
            queues[thread_map[c]] = Pending(Cursor(c), frameCnt)

\* no thread is between the two statements of deactivate that disable and
\* drain slot s
NotDraining(s) == \A c \in Threads : ~(pc[c] = "d_clr" /\ thread_map[c] = s)

\* C2 (as claimed): no thread dequeues a frame whose add_frame call had
\* returned before the thread called its latest activate, and add_frame
\* leaves no frame in the queue of an inactive slot.
C2_NoStaleFrames ==
    /\ \A c \in Threads : recv[c] # 0 => recv[c] > stamp[c]
    /\ \A s \in DOMAIN queues :
          (~enabled[s] /\ NotDraining(s)) => queues[s] = <<>>

\* C3 (as claimed): at most max_threads threads hold a successful
\* activation at a time, and no two of them are bound to the same slot.
C3_AtMostMaxClients ==
    LET admitted == {c \in Threads : pc[c] = "stream"} IN
    /\ Cardinality(admitted) <= max_threads
    /\ \A c, d \in admitted : c # d => thread_map[c] # thread_map[d]

\* C4: the number of slots marked active is between 0 and max_threads.
ActiveSlots == {s \in DOMAIN enabled : enabled[s]}

C4_SlotBound ==
    Cardinality(ActiveSlots) >= 0 /\ Cardinality(ActiveSlots) <= max_threads

\* C4 witness: every slot is active and a further request was turned away
Buffered(buf, code) ==
    \E i \in 1..Len(buf) : buf[i][1] = "HTTP" /\ buf[i][2] = code

C4_Witness ==
    /\ Cardinality(ActiveSlots) = max_threads
    /\ \E c \in Threads : pc[c] = "closed" /\ Buffered(hdrbuf[c], TOO_MANY_REQUESTS)

\* the device is active, its getEvent succeeds and reports liveviewStatus true
LiveviewUp == active_device \in Devices /\ camera = "lv_on"

\* thread c calls activate in this step: at the start of a request that
\* passed the availability check, or at the end of the pacing sleep
ActivateCalled(c) ==
    \/ pc[c] = "idle" /\ pc'[c] # "idle" /\ LiveviewUp
    \/ pc[c] = "sleep" /\ pc'[c] # "sleep"

\* C5: activate returns False and changes no slot when every slot is
\* active; otherwise it returns True, marks the lowest inactive slot active
\* and binds the calling thread to it.
C5_ActivateLowestFree ==
    [][\A c \in Threads :
        ActivateCalled(c) =>
            IF AllActive
            THEN /\ pc'[c] \in {"closed", "break"}
                 /\ enabled' = enabled /\ queues' = queues
                 /\ thread_map' = thread_map
            ELSE /\ pc'[c] = "stream"
                 /\ enabled' = [enabled EXCEPT ![LowestFree] = TRUE]
                 /\ thread_map'[c] = LowestFree]_vars

\* C5 witness: one thread was given slot 1 after slot 0, and a request
\* that found both active was refused
C5_Witness ==
    /\ AllActive
    /\ \E c, d \in Threads :
          /\ pc[c] = "stream" /\ thread_map[c] = 1
          /\ pc[d] = "closed" /\ Buffered(hdrbuf[d], TOO_MANY_REQUESTS)

\* the client was sent a response that starts with the status line of
\* `code` and carries Retry-After: 120
Answered(w, code) ==
    /\ Len(w) > 0
    /\ w[1][1] = "HTTP" /\ w[1][2] = code
    /\ \E i \in 1..Len(w) : w[i][1] = "Retry-After" /\ w[i][2] = RETRY_AFTER

SlotsUnchanged ==
    enabled' = enabled /\ queues' = queues /\ thread_map' = thread_map

\* C6 (as claimed): a liveview request that finds every slot active is
\* answered with 429 and Retry-After: 120 and changes no slot.
C6_AdmissionDenied ==
    [][\A c \in Threads :
        (pc[c] = "idle" /\ pc'[c] # "idle" /\ LiveviewUp /\ AllActive) =>
            (Answered(wire'[c], TOO_MANY_REQUESTS) /\ SlotsUnchanged)]_vars

\* C7 (as claimed): a liveview request activates a slot only if the
\* liveview is up; otherwise it is answered with 503 and Retry-After: 120
\* and the slot table is unchanged.
C7_LiveviewGating ==
    [][\A c \in Threads :
        (pc[c] = "idle" /\ pc'[c] # "idle") =>
            /\ (enabled' # enabled => LiveviewUp)
            /\ (~LiveviewUp =>
                  (Answered(wire'[c], SERVICE_UNAVAILABLE) /\ SlotsUnchanged))]_vars

\* Scheduling: a handler thread that can run does run.  Nothing obliges
\* the camera to deliver a frame, a client to send a request or to leave.
HandlerRun(c) ==
    \/ \E paced \in BOOLEAN : StreamFrame(c, paced)
    \/ Wake(c)
    \/ Leave(c)
    \/ Finish(c)

SpecLive == Init /\ [][Next]_vars /\ \A c \in Threads : WF_vars(HandlerRun(c))

\* C8 (as claimed): once the client of a streaming handler has
\* disconnected, the handler eventually deactivates its slot.  (The second
\* disjunct keeps the frame bound of the model out of it: a run refutes the
\* claim only while the camera still has frames to deliver.)
C8_DisconnectDeactivates ==
    \A c \in Threads :
        (gone[c] /\ pc[c] = "stream") ~>
            (pc[c] \in {"sleep", "closed", "idle"} \/ frameCnt = MaxFrames)

\* the ids of the requests sent through endpoint ep, oldest first
IdsOf(ep) ==
    LET mine == SelectSeq(sent, LAMBDA r : r.ep = ep) IN
    [i \in 1..Len(mine) |-> mine[i].id]

\* the value that follows id on the cycle 1 .. 2^31-1
Successor(id) == IF id = ID_MAX THEN 1 ELSE id + 1

\* C9: every request sent through a bound method of an endpoint carries
\* the value of the endpoint's counter, which lies in 1 .. 2^31-1, and
\* moves the counter to the next value, 2^31-1 being followed by 1.
C9_IdSequence ==
    [][\A ep \in EndPoints :
        (Len(sent') = Len(sent) + 1 /\ sent'[Len(sent')].ep = ep) =>
            /\ sent'[Len(sent')].id = ep_id[ep]
            /\ ep_id[ep] >= 1 /\ ep_id[ep] <= ID_MAX
            /\ ep_id'[ep] = Successor(ep_id[ep])
            /\ ep_id'[ep] >= 1 /\ ep_id'[ep] <= ID_MAX]_vars

\* C9 witness: three requests in a row through one endpoint carried
\* 0x7FFFFFFE, 0x7FFFFFFF and 1
C9_Witness ==
    \E ep \in EndPoints :
        IdsOf(ep) = <<ID_MAX - 1, ID_MAX, 1>> /\ Len(sent) = 3

\* C10 (as claimed): invoking a name that is not in the endpoint's catalog
\* returns the 501 stub answer with the current id, sends nothing to the
\* device and leaves the counter alone.
C10_NotImplemented ==
    [][(call'.n = call.n + 1 /\ call'.ep \in EndPoints /\ active_device # NoDevice
        /\ call'.method # "" /\ call'.method \notin Catalog(call'.ep)) =>
            /\ reply' = [kind |-> "json",
                         error |-> <<NOT_IMPLEMENTED, "Not Implemented">>,
                         id |-> ep_id[call'.ep]]
            /\ sent' = sent
            /\ ep_id' = ep_id]_vars

\* C11 (as claimed): a POST to an endpoint path that arrives while no device
\* is active is answered with the JSON result
\* {error: [404, "No Device Connected"]}.
C11_NoDevice404 ==
    [][(call'.n = call.n + 1 /\ call'.via = "POST" /\ active_device = NoDevice) =>
            /\ reply'.kind = "json"
            /\ reply'.error = <<NOT_FOUND, "No Device Connected">>]_vars

\* the error code request() is to return for each kind of failure
ErrorCode(kind) ==
    IF kind = "timeout" THEN 2
    ELSE IF kind = "HTTPError" THEN HTTP_ERROR_CODE
    ELSE IF kind = "URLError" THEN 601
    ELSE 504

\* C12 (as claimed): whenever a device request fails (no answer with a
\* result, or no service for the endpoint), request() raises nothing and
\* returns an error object whose code is the one of the failure kind.
C12_ErrorsReified ==
    [][(call'.n = call.n + 1 /\ call'.answer \notin {"none", "result"}) =>
            /\ reply'.kind = "json"
            /\ Len(reply'.error) = 2
            /\ reply'.error[1] = ErrorCode(call'.answer)]_vars

\* C13: a changeDevice request that names the active device leaves the
\* active device, the status and the liveview task as they are and starts
\* none of the steps of a switch.
C13_ChangeToActiveNoOp ==
    [][(chg'.n = chg.n + 1 /\ active_device # NoDevice /\ chg'.dev = active_device) =>
            /\ active_device' = active_device
            /\ status' = status
            /\ liveview' = liveview /\ lv_running' = lv_running
            /\ cpc' = "idle" /\ steps' = steps]_vars

\* C13 witness: the active device was named in a changeDevice request
\* while its liveview task was running, after an earlier switch
C13_Witness ==
    /\ chg.same /\ chg.n > 1 /\ active_device # NoDevice
    /\ lv_running /\ steps # <<>> /\ cpc = "idle"

\* the order of the steps of a device switch
SwitchOrder == <<"stop", "set", "refresh", "start">>

\* C14 (as claimed): the steps of a device switch happen in the order
\* stop, set, refresh, start, and every frame handed to the fan-out comes
\* from a task of the device that is active at that moment.
C14_SwitchingOrder ==
    [][/\ (steps' # steps =>
            /\ Len(steps') <= Len(SwitchOrder)
            /\ \A i \in 1..Len(steps') : steps'[i] = SwitchOrder[i])
       /\ (frameCnt' # frameCnt => feeder' = active_device)]_vars

\* the sleep the k-th consecutive transient failure is to be followed by
ExpectedSleep(k) ==
    IF k = 1 THEN 1 ELSE IF k = 2 THEN 2 ELSE IF k = 3 THEN 4
    ELSE IF k = 4 THEN 8 ELSE 16

\* C15 (as claimed): the k-th transient failure in a row, counted since
\* the last parsed frame or since the start, is followed by a sleep of
\* 1, 2, 4, 8, 16, 16, ... seconds.
C15_BackoffSequence ==
    [][fails' = fails + 1 => slept' = ExpectedSleep(fails')]_vars

\* the frame in turn announces a JPEG of more than 100000 bytes
OversizeInTurn ==
    LET k == FrameAt(lv_stream, lv_pos) IN
    /\ lpc = "frame" /\ ~done
    /\ k \in 1..Len(lv_stream)
    /\ lv_stream[k].body > MAX_JPEG_SIZE

\* C16 (as claimed): when the frame in turn announces more than 100000
\* bytes, the round of the liveview task ends with the connection dropped
\* and a backoff, and the task goes on to reconnect.
C16_DesyncRecovers ==
    [][(OversizeInTurn /\ lpc' # lpc) =>
            /\ lpc' = "connect"
            /\ fails' = fails + 1 /\ slept' > 0
            /\ lv_err' = "none"]_vars

\* every frame of the stream is well-formed and within the size limit
ValidStream == \A i \in 1..Len(lv_stream) : lv_stream[i].body <= MAX_JPEG_SIZE

\* the JPEG frames among the first k - 1 frames, in stream order
RECURSIVE JpegsBefore(_, _)
JpegsBefore(st, k) ==
    IF k <= 1 THEN <<>>
    ELSE IF st[k - 1].payload_type = JPEG_DATA
    THEN Append(JpegsBefore(st, k - 1), [frame |-> k - 1, len |-> st[k - 1].body])
    ELSE JpegsBefore(st, k - 1)

\* C17: on a stream of valid frames the parser stands on a frame boundary
\* whenever it starts a frame (it consumed 8 + 128 + L + P bytes of every
\* frame before), and jpeg_cb got one JPEG of length L for each JPEG
\* frame before that boundary, in stream order.
C17_ParseAligned ==
    (ValidStream /\ lpc \in {"frame", "dead", "stopped"} /\ conns > 0) =>
        /\ FrameAt(lv_stream, lv_pos) # 0
        /\ delivered = JpegsBefore(lv_stream, FrameAt(lv_stream, lv_pos))

\* C17 witness: a padded JPEG frame, a frame-info frame and the end of the
\* stream were reached in one session
C17_Witness ==
    /\ Len(lv_stream) = 2 /\ ValidStream
    /\ lv_stream[1].payload_type = JPEG_DATA /\ lv_stream[1].pad > 0
    /\ lv_stream[1].body > 255
    /\ lv_stream[2].payload_type = FRAME_DATA
    /\ lv_pos = StartOf(lv_stream, 3)
    /\ delivered = <<[frame |-> 1, len |-> lv_stream[1].body]>>

\* the latest payload header was rejected
Rejected == lpc = "dead" /\ lv_err = "RuntimeError"

\* C18: the size computed from the three size bytes is
\* b2 * 65536 + b1 * 256 + b0 with the first byte of the header as b2; a
\* header with size 100000 is accepted, one with 100001 is rejected.
C18_SizeDecode ==
    lastSize.frame # 0 =>
        LET sz == lv_stream[lastSize.frame].size IN
        /\ lastSize.size = sz[1] * 65536 + sz[2] * 256 + sz[3]
        /\ lastSize.size = lv_stream[lastSize.frame].body
        /\ (lastSize.size = MAX_JPEG_SIZE => ~Rejected)
        /\ (lastSize.size = MAX_JPEG_SIZE + 1 => Rejected)
        /\ (Rejected <=> lastSize.size > MAX_JPEG_SIZE)

\* C18 witness: a frame of 100000 bytes was delivered and the next one, of
\* 100001 bytes, was rejected
C18_Witness ==
    /\ Rejected
    /\ lastSize = [frame |-> 2, size |-> MAX_JPEG_SIZE + 1]
    /\ delivered = <<[frame |-> 1, len |-> MAX_JPEG_SIZE]>>

\* the items of a dict, whatever their order
Items(d) == {d[i] : i \in 1..Len(d)}

\* the headers of a reply as the parser is to read them: names in lower
\* case, a later line replacing an earlier one of the same name
HeadersOf(o) ==
    {<<lower(o.lines[i][1]), o.lines[i][2]>> : i \in
        {n \in 1..Len(o.lines) :
            \A m \in (n + 1)..Len(o.lines) :
                lower(o.lines[m][1]) # lower(o.lines[n][1])}}

\* the records query returns
Records == {Items(services[i].srv) : i \in 1..Len(services)}

\* C19: the records query returns are the distinct header sets of the
\* replies it received, one record each.
C19_DiscoveryDedup ==
    qstate = "returned" =>
        /\ Records = {HeadersOf(received[i]) : i \in 1..Len(received)}
        /\ Len(services) = Cardinality(Records)

\* C19 witness: all sockets got a reply with the same headers, not all
\* in the same order, and query returned one record
C19_Witness ==
    /\ qstate = "returned"
    /\ Len(received) = Len(socks)
    /\ received[1] # received[2]
    /\ Len(services) = 1 /\ Len(services[1].srv) = 2

\* a 200 OK reply all of whose lines are headers
WellFormed(o) ==
    /\ o.kind = "data"
    /\ o.status = "HTTP/1.1 200 OK"
    /\ \A i \in 1..Len(o.lines) : Len(o.lines[i]) = 2

\* C20 (as claimed): no exception leaves query, and what it returns are
\* the records of the sockets that got a well-formed reply: a timeout, an
\* OS error or a malformed reply adds nothing and takes nothing away.
C20_DiscoveryFailures ==
    /\ qstate # "raised"
    /\ qstate = "returned" =>
          Records = {HeadersOf(socks[i]) : i \in {n \in 1..Len(socks) : WellFormed(socks[n])}}

\* C25 (as claimed): a pacing pause never ends the stream: whatever other
\* clients did meanwhile, the handler that wakes from the pacing sleep is
\* active again and goes on streaming.
C25_PauseResumes ==
    [][\A c \in Threads :
        (pc[c] = "sleep" /\ pc'[c] # "sleep") =>
            (pc'[c] = "stream" /\ enabled'[thread_map'[c]])]_vars

\* C26 (as claimed): a step of one handler thread never deactivates the
\* slot on which another thread is streaming, nor removes frames from its
\* queue.
C26_SlotOwnership ==
    [][\A c, d \in Threads :
        (c # d /\ pc[c] = "stream" /\ enabled[thread_map[c]] /\ pc'[d] # pc[d]) =>
            /\ enabled'[thread_map[c]]
            /\ Len(queues'[thread_map[c]]) >= Len(queues[thread_map[c]])]_vars

\* C27: the producer can always hand over its next frame, and the frame
\* is appended to the queue of every active slot, however many frames
\* wait in any of them.
C27_AddFrameNeverBlocks ==
    /\ [](frameCnt < MaxFrames => ENABLED AddFrame)
    /\ [][frameCnt' = frameCnt + 1 =>
            \A s \in DOMAIN enabled :
                enabled[s] => queues'[s] = Append(queues[s], frameCnt')]_vars

\* C27 witness: one client has stopped dequeuing and all frames wait in
\* its queue, while another client has received the latest frame
C27_Witness ==
    \E c, d \in Threads :
        /\ c # d /\ pc[c] = "stream" /\ pc[d] = "stream"
        /\ thread_map[c] # thread_map[d]
        /\ frameCnt = MaxFrames /\ frameCnt > 1
        /\ Len(queues[thread_map[c]]) = frameCnt
        /\ recv[d] = frameCnt

\* the round of the liveview task parsed a frame to its end
FrameParsed == lpc = "frame" /\ lpc' = "frame" /\ lv_pos' > lv_pos

StreamExhausted ==
    /\ lpc = "frame" /\ ~done
    /\ FrameAt(lv_stream, lv_pos) = Len(lv_stream) + 1

\* C30 (as claimed): a short read is a transient failure: the round ends
\* with a backoff and the task goes on to reconnect.
C30_ShortReadTransient ==
    [][(StreamExhausted /\ lpc' # lpc) =>
            /\ lpc' = "connect"
            /\ fails' = fails + 1
            /\ lv_err' = "none"]_vars

\* C23: after the construction of a device proxy every endpoint name that is
\* a key of its endpoints mapping has a service descriptor of that type in
\* webapi.Services, whatever getServiceProtocols answered
C23_EndpointsDescribed ==
    bpc = "built" => \A n \in endpoints : found(webapi, n)

\* C23 witness: a proxy was built whose device named an endpoint the
\* description had no service for, so that a service was appended
C23_Witness ==
    /\ bpc = "built"
    /\ endpoints # {}
    /\ Len(webapi) > MaxServices

\* the proxies a call returned
Returned(r) == {r.result[i] : i \in DOMAIN r.result}

\* the records of a reply list that scan_devices hands to add
Eligible(r) ==
    {r[i] : i \in {n \in DOMAIN r : is_sony(DictGet(r[n], "server")) /\ HasKey(r[n], "location")}}

C22_StoreNeverFatal ==
    cache_state # "raised"

\* the answer on the socket starts with the status line of code
StatusSent(w, code) == Len(w) > 0 /\ w[1] = StatusLine(code)

\* the walk on the active device yields no file of that uri
NoSuchFile(name) == \A i \in DOMAIN media : media[i].uri # name

\* C24: a GET of /image:content/<name> whose name matches no uri of the
\* media walk on the active device is answered with 503.
C24_NotFound503 ==
    [][\A c \in Threads :
        (pc[c] = "idle" /\ pc'[c] = "closed" /\ active_device # NoDevice
         /\ NoSuchFile(req'[c]))
        => StatusSent(wire'[c], SERVICE_UNAVAILABLE)]_vars

\* C28: at most one liveview task is alive at any time, also when
\* changeDevice requests run in different worker threads at once: a task is
\* started only after the one before it was stopped and joined.
C28_OneLiveviewTask ==
    Cardinality(AliveTasks) <= 1

\* the task has ended
Terminated == lpc \in {"stopped", "dead"}

\* C31: once exit() has set the done flag the liveview task hands at most
\* one more frame to its callbacks and then ends, also when the flag is set
\* while the task sleeps in _backoff, given that its read or sleep returns.
C31_CooperativeShutdown ==
    /\ [](late <= 1)
    /\ (done ~> Terminated)

\* C31 witness: exit() came between the loop test and the read of a frame;
\* the task handed that frame to its callback and ended at the next test
C31_Witness ==
    /\ done
    /\ late = 1
    /\ lpc = "stopped"

\* the frame in turn has a start byte that is not 0xFF, or is a JPEG frame
\* whose payload header has its flag set
BadInTurn ==
    LET k == FrameAt(lv_stream, lv_pos)
    IN  /\ lpc = "frame"
        /\ k \in 1..Len(lv_stream)
        /\ \/ lv_stream[k].start_byte # START_BYTE
           \/ lv_stream[k].payload_type = JPEG_DATA /\ lv_stream[k].flag # 0

\* C32: a frame whose start byte is not 0xFF, or whose JPEG payload header
\* has a flag other than 0, is rejected: no JPEG of it reaches the JPEG
\* callback and no byte behind the failing header is read as a frame of
\* the same connection.
C32_HeaderValidation ==
    [][BadInTurn =>
        /\ delivered' = delivered
        /\ lpc' = "frame" => lv_pos' = lv_pos
        /\ lpc' # lpc => lpc' \in {"dead", "connect", "stopped"}]_vars

\* C32 witness: behind a delivered JPEG the task met a JPEG frame with its
\* flag set and ended on the RuntimeError of payload_header_jpeg
C32_Witness ==
    /\ lpc = "dead"
    /\ lv_err = "RuntimeError"
    /\ Len(delivered) = 1
    /\ lastSize.frame = 2
    /\ lv_stream[2].flag # 0

\* C33: when guide.getServiceProtocols comes back without results (here:
\* the description lists no guide service, so request answers with its
\* error dictionary), the construction completes and exactly guide,
\* system, camera and avContent are the accessible endpoints.
C33_DefaultFallback ==
    [][(bpc = "request" /\ ~found(webapi, "guide")) =>
        (bpc' = "built" /\ endpoints' = DefaultEndPoints)]_vars

\* the strings in use in lower case, and the pairs of them of which the
\* first occurs in the second
Lower(str) ==
    CASE str = "DSC-A" -> "dsc-a"
      [] str = "ILCE-B" -> "ilce-b"
      [] str = "ILCE" -> "ilce"
      [] OTHER -> str
contains_ci(name, device_name) ==
    \/ name = ""
    \/ <<Lower(name), Lower(device_name)>> \in {<<"dsc", "dsc-a">>, <<"ilce", "ilce-b">>}

\* C34: find_device on an empty cache scans and returns the first proxy the
\* scan left (or none); on a cache with entries it does not scan and
\* returns the first cached proxy for an empty name, else the first cached
\* proxy whose device_name contains the name regardless of case (or none).
C34_FindSemantics ==
    [][(ret'.op = "find" /\ calls' = calls + 1) =>
        IF cache = <<>>
        THEN \/ ret'.raised
             \/ ret'.result = IF cache' = <<>> THEN <<>> ELSE <<cache'[1].dev>>
        ELSE /\ cache' = cache /\ fetches' = fetches /\ objs' = objs
             /\ ~ret'.raised
             /\ LET m == {i \in DOMAIN cache :
                            contains_ci(ret'.name, cache[i].dev.device_name)}
                IN  IF ret'.name = "" THEN ret'.result = <<cache[1].dev>>
                    ELSE IF m = {} THEN ret'.result = <<>>
                    ELSE \E i \in m : /\ \A j \in m : i <= j
                                      /\ ret'.result = <<cache[i].dev>>]_vars

\* C34 witness: a find by name on a cache of two devices returned the
\* second, the one whose name contains the name asked for
C34_Witness ==
    /\ ret.op = "find"
    /\ ret.name = "ILCE"
    /\ Len(cache) = 2
    /\ cache[1].dev.device_name = "DSC-A"
    /\ ret.result = <<cache[2].dev>>

\* C35: find_device called with a name that is not empty never returns a
\* device whose device_name does not contain the name, whatever the cache
\* held before.
C35_FindNeverOtherDevice ==
    (ret.op = "find" /\ ret.name # "" /\ ret.result # <<>>) =>
        contains_ci(ret.name, ret.result[1].device_name)

\* C37 (as claimed): the successor of the counter is (id mod 2^31) + 1 for
\* every id in 1 .. 2^31-1. Every such id is below 2^31, so id mod 2^31 is
\* id and the claimed successor less one is id itself.
C37_SuccessorMod2Pow31 ==
    [][\A ep \in EndPoints :
        (ep_id'[ep] # ep_id[ep] /\ ep_id[ep] \in 1..ID_MAX) =>
            ep_id'[ep] - 1 = ep_id[ep]]_vars

\* C37 (amended): the successor of the counter is (id mod (2^31-1)) + 1 for
\* every id in 1 .. 2^31-1, a value of 1 .. 2^31-1 again.
C37_SuccessorModIdMax ==
    [][\A ep \in EndPoints :
        (ep_id'[ep] # ep_id[ep] /\ ep_id[ep] \in 1..ID_MAX) =>
            /\ ep_id'[ep] - 1 = ep_id[ep] % 2147483647
            /\ ep_id'[ep] \in 1..ID_MAX]_vars

\* C37 witness: the counter of an endpoint went from 2^31-1 to 1
C37_Witness ==
    \E ep \in EndPoints :
        /\ ep_id[ep] = 1
        /\ IdsOf(ep) # <<>>
        /\ IdsOf(ep)[Len(IdsOf(ep))] = 2147483647

\* C36: handlers calling methods of one endpoint at the same time get ids
\* that differ from each other, and each call moves the counter to the next
\* value: no id is issued twice and none is left out.
C36_ConcurrentIds ==
    /\ [](\A i, j \in DOMAIN issued : i # j => issued[i] # issued[j])
    /\ [][Len(issued') = Len(issued) + 1 => self_id' = Successor(self_id)]_vars

\* the types an argument entry may have
ArgTypes ==
    {"bool", "int", "double", "string", "bool*", "int*", "double*", "string*",
     "JSON", "JSON*"}

\* C38: every argument entry _parse_arg_spec makes, for any parameter spec
\* and with or without options, has a type among bool, int, double, string,
\* their starred forms, JSON and JSON*.
C38_ArgTypeDomain == \A n \in DOMAIN args : args[n][2].type \in ArgTypes

\* await_state has returned or raised
AwEnded == awpc \in {"returned", "timeout", "error"}

\* no poll so far saw the state asked for
NoneSeen == \A n \in DOMAIN polled : polled[n] # wanted

\* C39: await_state polls the status at most tries times, returns at the
\* first poll that sees the state asked for, raises the time-out exactly
\* when none of tries polls saw it, and always ends.
C39_AwaitState ==
    /\ [](Len(polled) <= tries)
    /\ [](awpc = "returned" <=>
            /\ polled # <<>>
            /\ polled[Len(polled)] = wanted
            /\ \A n \in 1..(Len(polled) - 1) : polled[n] \notin {wanted, NoResult})
    /\ [](awpc = "timeout" <=>
            (AwEnded /\ Len(polled) = tries /\ NoneSeen
                /\ \A n \in DOMAIN polled : polled[n] # NoResult))
    /\ <>AwEnded

\* C39 witness: the third of three polls saw the state asked for
C39_Witness ==
    /\ awpc = "returned"
    /\ tries = 3
    /\ Len(polled) = 3

\* C40: a changeDevice request naming a device that is not in the list of
\* the server leaves the active device, the status and the running
\* liveview task as they are, and the handler has nothing more to do.
C40_UnknownDeviceNoChange ==
    [][(chg'.n = chg.n + 1 /\ chg'.dev \notin devices) =>
        /\ active_device' = active_device
        /\ status' = status
        /\ liveview' = liveview
        /\ lv_running' = lv_running
        /\ cpc' = "idle"]_vars

\* C40 witness: with a device active and its liveview task running, the
\* latest changeDevice named a device that is not in the list
C40_Witness ==
    /\ chg.n >= 1
    /\ chg.dev \notin devices
    /\ cpc = "idle"
    /\ active_device \in devices
    /\ liveview = active_device
    /\ lv_running

====
